---- MODULE Spec2Model ----
(***************************************************************************)
(* Model of the DICOM SR measurement-report adapter registry and parser    *)
(* (MeasurementReport, src/unnamed/part_000).                              *)
(*                                                                         *)
(* The two static registry maps are the state; every public static method  *)
(* is one action.  The variable `last` is the observation a caller (or a   *)
(* test spy) has of the most recent call: its arguments, whether it        *)
(* raised, what it returned, which callbacks and validators it invoked.    *)
(***************************************************************************)
EXTENDS Integers, Sequences, FiniteSets, TLC

VARIABLES measurementAdapterByToolType,
          measurementAdapterByTrackingIdentifier,
          dataset,
          toolState,
          toolGroups,
          tools,
          renderingEngines,
          last

vars == <<measurementAdapterByToolType,
          measurementAdapterByTrackingIdentifier,
          dataset,
          toolState,
          toolGroups,
          tools,
          renderingEngines,
          last>>

\* what the caller holds: the SR document it parses, the annotations it serialises
inputs == <<dataset, toolState>>

\* the tool-group store (state.toolGroups), the names of the tool registry
\* (state.tools) and the rendering engines of the page
toolGroupState == <<toolGroups, tools, renderingEngines>>

----------------------------------------------------------------------------
(* Bounds *)

\* longest rest-argument list handed to registerTrackingIdentifier
MaxIdentifiers == 2

\* most Measurement Group children of the Imaging Measurements section
MaxGroups == 2

\* most source images (keys) of a tool state handed to generateReport
MaxImages == 2

\* most annotations of one tool kind on one image
MaxAnnotations == 1

MaxFindingSites == 2

----------------------------------------------------------------------------
(* The adapters of the environment.  An adapter is an object implementing  *)
(* the MeasurementAdapter interface; the registry only reads its toolType, *)
(* its trackingIdentifierTextValue and calls its identifier validator.     *)

NoAdapter == "undefined"

Adapters == {"LengthA", "LengthB", "ProbeA"}

ToolTypes == {"Length", "Probe"}

TrackingIds == {"CS3D:Length", "CS3D:Probe", "CS3D:Any", "Other"}

toolType(adapter) ==
    IF adapter \in {"LengthA", "LengthB"} THEN "Length" ELSE "Probe"

trackingIdentifierTextValue(adapter) ==
    IF adapter \in {"LengthA", "LengthB"} THEN "CS3D:Length" ELSE "CS3D:Probe"

\* the adapter's own "is this identifier mine" predicate
isValidCornerstoneTrackingIdentifier(adapter, trackingIdentifier) ==
    CASE adapter = "LengthA" -> trackingIdentifier \in {"CS3D:Length", "CS3D:Any"}
      [] adapter = "LengthB" -> trackingIdentifier \in {"CS3D:Length"}
      [] adapter = "ProbeA"  -> trackingIdentifier \in {"CS3D:Probe", "CS3D:Any"}

----------------------------------------------------------------------------
(* JavaScript Map: iteration order is insertion order, and set() on an     *)
(* existing key keeps the key's position.  The tool-kind map is a sequence *)
(* of entries; the tracking-identifier map is only read by key, so it is a *)
(* function with NoAdapter for an absent key.                              *)

MapHas(m, k) == \E i \in 1..Len(m) : m[i].key = k

MapGet(m, k) ==
    IF MapHas(m, k)
    THEN m[CHOOSE i \in 1..Len(m) : m[i].key = k].value
    ELSE NoAdapter

MapSet(m, k, v) ==
    IF MapHas(m, k)
    THEN [i \in 1..Len(m) |-> IF m[i].key = k THEN [key |-> k, value |-> v] ELSE m[i]]
    ELSE Append(m, [key |-> k, value |-> v])

MapValues(m) == [i \in 1..Len(m) |-> m[i].value]

EmptyIdentifierMap == [id \in TrackingIds |-> NoAdapter]

IdentifierKeys(byId) == {id \in TrackingIds : byId[id] # NoAdapter}

----------------------------------------------------------------------------
(* registerTool *)

ReplaceArgs == {"omitted", "false", "true", "callback"}

\* the default parameter value: replace = false
ReplaceValue(replace) == IF replace = "omitted" THEN "false" ELSE replace

\* variant: the callback is invoked after the map entry has been overwritten
ReplaceCallbackCallsAfterSet(byType, toolAdapter, replace) ==
    IF MapHas(byType, toolType(toolAdapter)) /\ ReplaceValue(replace) = "callback"
    THEN LET after == MapSet(byType, toolType(toolAdapter), toolAdapter)
         IN  << [original   |-> MapGet(after, toolType(toolAdapter)),
                 registered |-> MapGet(after, toolType(toolAdapter))] >>
    ELSE << >>

\* the calls registerTool makes to the replace callback, each with the
\* argument it passes and the tool-kind entry in the map at that moment
ReplaceCallbackCalls(byType, toolAdapter, replace) ==
    IF MapHas(byType, toolType(toolAdapter)) /\ ReplaceValue(replace) = "callback"
    THEN << [original |-> MapGet(byType, toolType(toolAdapter)),
             registered |-> MapGet(byType, toolType(toolAdapter))] >>
    ELSE << >>

\* variant: the duplicate test compares adapter objects, not tool-kind names
RegisterToolRaisesSameAdapterOnly(byType, toolAdapter, replace) ==
    MapGet(byType, toolType(toolAdapter)) = toolAdapter /\ ReplaceValue(replace) = "false"

RegisterToolRaises(byType, toolAdapter, replace) ==
    MapHas(byType, toolType(toolAdapter)) /\ ReplaceValue(replace) = "false"

RegisterToolByType(byType, toolAdapter, replace) ==
    IF RegisterToolRaises(byType, toolAdapter, replace)
    THEN byType
    ELSE MapSet(byType, toolType(toolAdapter), toolAdapter)

\* variant: an identifier that already has an adapter keeps it
RegisterToolByIdentifierIfAbsent(byType, byId, toolAdapter, replace) ==
    IF RegisterToolRaises(byType, toolAdapter, replace)
          \/ byId[trackingIdentifierTextValue(toolAdapter)] # NoAdapter
    THEN byId
    ELSE [byId EXCEPT ![trackingIdentifierTextValue(toolAdapter)] = toolAdapter]

RegisterToolByIdentifier(byType, byId, toolAdapter, replace) ==
    IF RegisterToolRaises(byType, toolAdapter, replace)
    THEN byId
    ELSE [byId EXCEPT ![trackingIdentifierTextValue(toolAdapter)] = toolAdapter]

----------------------------------------------------------------------------
(* registerTrackingIdentifier *)

\* variant: only the first identifier of the list is registered
RegisterIdentifiersFirstOnly(byId, toolClass, trackingIdentifiers) ==
    IF trackingIdentifiers = << >>
    THEN byId
    ELSE [byId EXCEPT ![Head(trackingIdentifiers)] = toolClass]

RECURSIVE RegisterIdentifiers(_, _, _)
RegisterIdentifiers(byId, toolClass, trackingIdentifiers) ==
    IF trackingIdentifiers = << >>
    THEN byId
    ELSE RegisterIdentifiers([byId EXCEPT ![Head(trackingIdentifiers)] = toolClass],
                             toolClass, Tail(trackingIdentifiers))

----------------------------------------------------------------------------
(* getAdapterForTrackingIdentifier *)

\* variant: the probe keeps the last adapter that accepts, not the first
RECURSIVE LastAccepting(_, _, _)
LastAccepting(values, trackingIdentifier, i) ==
    IF i > Len(values) THEN 0
    ELSE LET later == LastAccepting(values, trackingIdentifier, i + 1)
         IN  IF later # 0 THEN later
             ELSE IF isValidCornerstoneTrackingIdentifier(values[i], trackingIdentifier)
             THEN i ELSE 0

\* index of the first adapter, from position i on, whose validator accepts
\* the identifier; 0 when none does
RECURSIVE FirstAccepting(_, _, _)
FirstAccepting(values, trackingIdentifier, i) ==
    IF i > Len(values) THEN 0
    ELSE IF isValidCornerstoneTrackingIdentifier(values[i], trackingIdentifier) THEN i
    ELSE FirstAccepting(values, trackingIdentifier, i + 1)

\* variant: a successful probe is not written to the identifier map
ResolveWithoutCache(byType, byId, trackingIdentifier) ==
    LET adapter == byId[trackingIdentifier]
        values  == MapValues(byType)
        hit     == FirstAccepting(values, trackingIdentifier, 1)
    IN  IF adapter # NoAdapter
        THEN [adapter |-> adapter, byId |-> byId, probed |-> << >>]
        ELSE IF hit # 0
        THEN [adapter |-> values[hit], byId |-> byId, probed |-> SubSeq(values, 1, hit)]
        ELSE [adapter |-> NoAdapter, byId |-> byId, probed |-> values]

\* variant: the cache write sits outside the validator test, so a probe that
\* nobody accepts caches the last adapter tried
ResolveCachesMiss(byType, byId, trackingIdentifier) ==
    LET adapter == byId[trackingIdentifier]
        values  == MapValues(byType)
        hit     == FirstAccepting(values, trackingIdentifier, 1)
    IN  IF adapter # NoAdapter
        THEN [adapter |-> adapter, byId |-> byId, probed |-> << >>]
        ELSE IF hit # 0
        THEN [adapter |-> values[hit],
              byId    |-> [byId EXCEPT ![trackingIdentifier] = values[hit]],
              probed  |-> SubSeq(values, 1, hit)]
        ELSE [adapter |-> NoAdapter,
              byId    |-> IF values = << >> THEN byId
                          ELSE [byId EXCEPT ![trackingIdentifier] = values[Len(values)]],
              probed  |-> values]

\* the result of one resolve: the adapter returned, the identifier map
\* afterwards and the adapters whose validator was called, in call order
Resolve(byType, byId, trackingIdentifier) ==
    LET adapter == byId[trackingIdentifier]
        values  == MapValues(byType)
        hit     == FirstAccepting(values, trackingIdentifier, 1)
    IN  IF adapter # NoAdapter
        THEN [adapter |-> adapter, byId |-> byId, probed |-> << >>]
        ELSE IF hit # 0
        THEN [adapter |-> values[hit],
              byId    |-> [byId EXCEPT ![trackingIdentifier] = values[hit]],
              probed  |-> SubSeq(values, 1, hit)]
        ELSE [adapter |-> NoAdapter, byId |-> byId, probed |-> values]

----------------------------------------------------------------------------
(* The SR document handed to generateToolState.  Of the dataset the parser *)
(* reads the template identifier, the "Imaging Measurements" container and *)
(* its "Measurement Group" children; of a group it reads the Tracking      *)
(* Identifier text, and the adapter reads the coordinate child of the NUM  *)
(* node.  hookAdapter is what hooks.getToolClass answers for the group     *)
(* (NoAdapter when no hook is supplied or the hook returns nothing).       *)

NoTrackingIdentifier == "no Tracking Identifier node"

TemplateIdentifiers == {"1500", "1400"}

CoordinateChildren == {"SCOORD3D", "none"}

HookAnswers == {NoAdapter, "ProbeA"}

\* the Tracking Identifier texts found in documents: the primary identifier
\* of an adapter, one only validators accept, one nobody accepts
GroupTrackingIds == {"CS3D:Length", "CS3D:Any", "Other"}

\* a group without a Tracking Identifier node fails before the hook and the
\* coordinates are looked at, so one such group stands for all of them
MeasurementGroups ==
    {g \in [trackingIdentifier : GroupTrackingIds \cup {NoTrackingIdentifier},
            hookAdapter        : HookAnswers,
            coordinates        : CoordinateChildren] :
        g.trackingIdentifier = NoTrackingIdentifier
            => g.hookAdapter = NoAdapter /\ g.coordinates = "SCOORD3D"}

GroupLists == UNION {[1..n -> MeasurementGroups] : n \in 0..MaxGroups}

\* imagingMeasurements: the document has an "Imaging Measurements" item, the
\* container of the groups; contentSequence: that item has a
\* ContentSequence, of which the groups are the "Measurement Group" items
Datasets ==
    [TemplateIdentifier  : TemplateIdentifiers,
     imagingMeasurements : {TRUE},
     contentSequence     : {TRUE},
     groups              : GroupLists]
    \cup
    [TemplateIdentifier  : TemplateIdentifiers,
     imagingMeasurements : {TRUE},
     contentSequence     : {FALSE},
     groups              : {<< >>}]
    \cup
    [TemplateIdentifier  : TemplateIdentifiers,
     imagingMeasurements : {FALSE},
     contentSequence     : {FALSE},
     groups              : {<< >>}]

----------------------------------------------------------------------------
(* Code matching and labels.  An optional value is a sequence of length at  *)
(* most one: << >> is an absent property or an omitted argument.  A content *)
(* node is read only through its ConceptNameCodeSequence.                   *)

FINDING == [CodingSchemeDesignator |-> "DCM", CodeValue |-> "121071"]

FINDING_SITE == [CodingSchemeDesignator |-> "SCT", CodeValue |-> "363698007"]

FINDING_SITE_OLD == [CodingSchemeDesignator |-> "SRT", CodeValue |-> "G-C0E3"]

CodingSchemeDesignators == {"DCM", "SCT", "SRT"}

CodeValues == {"121071", "363698007", "G-C0E3"}

Codes == [CodingSchemeDesignator : CodingSchemeDesignators, CodeValue : CodeValues]

Optional(S) == {<< >>} \cup {<<x>> : x \in S}

ContentNodes == [ConceptNameCodeSequence : Optional(Codes)]

\* the values an expression of codeValueMatch can have
Truthy(value) == value = "true"

SameCode(a, b) ==
    /\ a.CodingSchemeDesignator = b.CodingSchemeDesignator
    /\ a.CodeValue = b.CodeValue

codeValueMatchOnValueOnly(group, code, oldCode) ==
    IF group.ConceptNameCodeSequence = << >> THEN "undefined"
    ELSE LET concept == group.ConceptNameCodeSequence[1]
         IN  IF concept.CodeValue = code.CodeValue THEN "true"
             ELSE IF oldCode = << >> THEN "undefined"
             ELSE IF concept.CodeValue = oldCode[1].CodeValue THEN "true"
             ELSE "false"

\* a bare return gives undefined; so does  false || (undefined && ..)
codeValueMatch(group, code, oldCode) ==
    IF group.ConceptNameCodeSequence = << >> THEN "undefined"
    ELSE LET concept == group.ConceptNameCodeSequence[1]
         IN  IF SameCode(concept, code) THEN "true"
             ELSE IF oldCode = << >> THEN "undefined"
             ELSE IF SameCode(concept, oldCode[1]) THEN "true"
             ELSE "false"

CORNERSTONEFREETEXT == "CORNERSTONEFREETEXT"

NoLabel == "undefined"

CodedConcepts ==
    [CodeValue : {CORNERSTONEFREETEXT, "T-D0000"},
     CodeMeaning : {"meaning A", "meaning B"}]

FindingSiteLists == UNION {[1..n -> CodedConcepts] : n \in 0..MaxFindingSites}

\* findingSites absent defaults to the empty list
DefaultStates == [findingSites : FindingSiteLists, finding : Optional(CodedConcepts)]

\* Array.prototype.find over the answers of the callback, one per element:
\* the index of the first element it accepts, 0 when it accepts none
FirstIndex(tests) ==
    IF \E i \in 1..Len(tests) : tests[i]
    THEN CHOOSE i \in 1..Len(tests) :
            /\ tests[i]
            /\ \A j \in 1..(i - 1) : ~tests[j]
    ELSE 0

IsFreeText(concept) == concept.CodeValue = CORNERSTONEFREETEXT

FreeTextTests(findingSites) ==
    [i \in 1..Len(findingSites) |-> IsFreeText(findingSites[i])]

getCornerstoneLabelFindingFirst(defaultState) ==
    LET freeTextLabel == FirstIndex(FreeTextTests(defaultState.findingSites))
    IN  IF /\ defaultState.finding # << >>
           /\ IsFreeText(defaultState.finding[1])
        THEN defaultState.finding[1].CodeMeaning
        ELSE IF freeTextLabel # 0
        THEN defaultState.findingSites[freeTextLabel].CodeMeaning
        ELSE NoLabel

getCornerstoneLabelFromDefaultState(defaultState) ==
    LET freeTextLabel == FirstIndex(FreeTextTests(defaultState.findingSites))
    IN  IF freeTextLabel # 0
        THEN defaultState.findingSites[freeTextLabel].CodeMeaning
        ELSE IF /\ defaultState.finding # << >>
                /\ IsFreeText(defaultState.finding[1])
        THEN defaultState.finding[1].CodeMeaning
        ELSE NoLabel

----------------------------------------------------------------------------
(* The geometry resolver.  A NUM node is read through the children in its  *)
(* ContentSequence: a SCOORD child through the ReferencedSOPInstanceUID of  *)
(* its ReferencedSOPSequence, a SCOORD3D child through its                  *)
(* ReferencedFrameOfReferenceUID.  The SOP-instance map and the metadata    *)
(* provider are the caller's; annotationUID is a fresh identifier and is    *)
(* left out of the state.                                                   *)

\* the SOP instances SCOORD children refer to: two of known images, one of
\* an image the provider has no image-plane module for, one the map lacks
UnplacedImageId == "image4"

ReferencedSOPInstanceUIDs ==
    {<<"sop", "image1">>, <<"sop", "image3">>, <<"sop", UnplacedImageId>>,
     <<"sop", "unknown">>}

ReferencedFrameOfReferenceUIDs == {"frame of reference 1", "frame of reference 9"}

\* sopInstanceUIDToImageIdMap[ReferencedSOPInstanceUID], absent for an
\* instance the caller did not list
sopInstanceUIDToImageIdMap(ReferencedSOPInstanceUID) ==
    IF ReferencedSOPInstanceUID[2] = "unknown" THEN << >>
    ELSE <<ReferencedSOPInstanceUID[2]>>

\* metadata.get("imagePlaneModule", referencedImageId)
imagePlaneModule(referencedImageId) ==
    IF referencedImageId = << >> \/ referencedImageId = <<UnplacedImageId>>
    THEN << >>
    ELSE <<[frameOfReferenceUID |->
               IF referencedImageId = <<"image3">> THEN "frame of reference 2"
               ELSE "frame of reference 1"]>>

NoState ==
    [toolName |-> "undefined", sopInstanceUid |-> << >>,
     referencedImageId |-> << >>, FrameOfReferenceUID |-> "undefined",
     label |-> "undefined"]

\* what a call of the resolver did: raised or returned state, the keys looked
\* up in the SOP-instance map and the image ids the provider was asked about
NoCoordinates ==
    [raised |-> TRUE, state |-> NoState, lookups |-> << >>, metadataCalls |-> << >>]

\* group => group.ValueType === ValueType over toArray(NUMGroup.ContentSequence)
ValueTypeTests(NUMGroup, ValueType) ==
    [i \in 1..Len(NUMGroup.ContentSequence) |->
        NUMGroup.ContentSequence[i].ValueType = ValueType]

\* reading frameOfReferenceUID of an undefined module raises
processSCOORDGroup(SCOORDGroup, toolType_) ==
    LET ReferencedSOPInstanceUID == SCOORDGroup.ReferencedSOPInstanceUID[1]
        referencedImageId == sopInstanceUIDToImageIdMap(ReferencedSOPInstanceUID)
        module == imagePlaneModule(referencedImageId)
    IN  IF module = << >>
        THEN [NoCoordinates EXCEPT
                !.lookups = <<ReferencedSOPInstanceUID>>,
                !.metadataCalls = <<referencedImageId>>]
        ELSE [raised |-> FALSE,
              state |-> [toolName |-> toolType_,
                         sopInstanceUid |-> <<ReferencedSOPInstanceUID>>,
                         referencedImageId |-> referencedImageId,
                         FrameOfReferenceUID |-> module[1].frameOfReferenceUID,
                         label |-> ""],
              lookups |-> <<ReferencedSOPInstanceUID>>,
              metadataCalls |-> <<referencedImageId>>]

\* variant: the frame of reference is confirmed with the metadata provider
processSCOORD3DGroupAskingProvider(SCOORD3DGroup, toolType_) ==
    [raised |-> FALSE,
     state |-> [toolName |-> toolType_,
                sopInstanceUid |-> << >>,
                referencedImageId |-> << >>,
                FrameOfReferenceUID |-> SCOORD3DGroup.ReferencedFrameOfReferenceUID[1],
                label |-> ""],
     lookups |-> << >>,
     metadataCalls |-> <<<< >>>>]

processSCOORD3DGroup(SCOORD3DGroup, toolType_) ==
    [raised |-> FALSE,
     state |-> [toolName |-> toolType_,
                sopInstanceUid |-> << >>,
                referencedImageId |-> << >>,
                FrameOfReferenceUID |-> SCOORD3DGroup.ReferencedFrameOfReferenceUID[1],
                label |-> ""],
     lookups |-> << >>,
     metadataCalls |-> << >>]

\* variant: a node without coordinates yields a state without geometry
getSpatialCoordinatesStateLenient(NUMGroup, toolType_) ==
    LET SCOORDGroup == FirstIndex(ValueTypeTests(NUMGroup, "SCOORD"))
        SCOORD3DGroup == FirstIndex(ValueTypeTests(NUMGroup, "SCOORD3D"))
    IN  IF SCOORDGroup # 0
        THEN processSCOORDGroup(NUMGroup.ContentSequence[SCOORDGroup], toolType_)
        ELSE IF SCOORD3DGroup # 0
        THEN processSCOORD3DGroup(NUMGroup.ContentSequence[SCOORD3DGroup], toolType_)
        ELSE [NoCoordinates EXCEPT !.raised = FALSE]

\* variant: the volumetric child is preferred
getSpatialCoordinatesStateVolumetricFirst(NUMGroup, toolType_) ==
    LET SCOORDGroup == FirstIndex(ValueTypeTests(NUMGroup, "SCOORD"))
        SCOORD3DGroup == FirstIndex(ValueTypeTests(NUMGroup, "SCOORD3D"))
    IN  IF SCOORD3DGroup # 0
        THEN processSCOORD3DGroup(NUMGroup.ContentSequence[SCOORD3DGroup], toolType_)
        ELSE IF SCOORDGroup # 0
        THEN processSCOORDGroup(NUMGroup.ContentSequence[SCOORDGroup], toolType_)
        ELSE NoCoordinates

getSpatialCoordinatesState(NUMGroup, toolType_) ==
    LET SCOORDGroup == FirstIndex(ValueTypeTests(NUMGroup, "SCOORD"))
        SCOORD3DGroup == FirstIndex(ValueTypeTests(NUMGroup, "SCOORD3D"))
    IN  IF SCOORDGroup # 0
        THEN processSCOORDGroup(NUMGroup.ContentSequence[SCOORDGroup], toolType_)
        ELSE IF SCOORD3DGroup # 0
        THEN processSCOORD3DGroup(NUMGroup.ContentSequence[SCOORD3DGroup], toolType_)
        ELSE NoCoordinates

\* the coordinate children of the NUM node of a measurement group
SCOORD(ReferencedSOPInstanceUID) ==
    [ValueType |-> "SCOORD", ReferencedSOPInstanceUID |-> <<ReferencedSOPInstanceUID>>,
     ReferencedFrameOfReferenceUID |-> << >>]

SCOORD3D(ReferencedFrameOfReferenceUID) ==
    [ValueType |-> "SCOORD3D", ReferencedSOPInstanceUID |-> << >>,
     ReferencedFrameOfReferenceUID |-> <<ReferencedFrameOfReferenceUID>>]

TEXT ==
    [ValueType |-> "TEXT", ReferencedSOPInstanceUID |-> << >>,
     ReferencedFrameOfReferenceUID |-> << >>]

\* the layouts of the NUM node: the names of its children, in order
GeometryCoordinateChildren ==
    {"SCOORD3D", "none", "SCOORD", "SCOORD unplaced", "SCOORD unknown",
     "SCOORD3D, SCOORD", "TEXT, SCOORD3D"}

NUMGroupOf(measurementGroup) ==
    [ContentSequence |->
        CASE measurementGroup.coordinates = "SCOORD3D" ->
                 <<SCOORD3D("frame of reference 1")>>
          [] measurementGroup.coordinates = "none" -> << >>
          [] measurementGroup.coordinates = "SCOORD" ->
                 <<SCOORD(<<"sop", "image1">>)>>
          [] measurementGroup.coordinates = "SCOORD unplaced" ->
                 <<SCOORD(<<"sop", UnplacedImageId>>)>>
          [] measurementGroup.coordinates = "SCOORD unknown" ->
                 <<SCOORD(<<"sop", "unknown">>)>>
          [] measurementGroup.coordinates = "SCOORD3D, SCOORD" ->
                 <<SCOORD3D("frame of reference 9"), SCOORD(<<"sop", "image3">>)>>
          [] measurementGroup.coordinates = "TEXT, SCOORD3D" ->
                 <<TEXT, SCOORD3D("frame of reference 9")>>]

\* processSpatialCoordinatesGroup: the state of the resolver completed with
\* the description and the label; finding and findingSites are the coded
\* concepts of the Finding and Finding Site items of the group
processSpatialCoordinatesGroup(NUMGroup, finding, findingSites, toolType_) ==
    LET r == getSpatialCoordinatesState(NUMGroup, toolType_)
        defaultState == [findingSites |-> findingSites, finding |-> finding]
    IN  IF r.raised THEN [raised |-> TRUE, description |-> "undefined", state |-> NoState]
        ELSE [raised |-> FALSE,
              description |-> IF finding # << >> THEN finding[1].CodeMeaning
                              ELSE "undefined",
              state |-> [r.state EXCEPT
                           !.label = getCornerstoneLabelFromDefaultState(defaultState)]]

----------------------------------------------------------------------------
(* generateToolState *)

\* toolAdapter.getMeasurementData(measurementGroup, ...): the extraction
\* raises exactly when the spatial coordinates cannot be set up
GetMeasurementDataRaises(toolAdapter, measurementGroup) ==
    getSpatialCoordinatesState(NUMGroupOf(measurementGroup),
                               toolType(toolAdapter)).raised

EmptyMeasurementData == [t \in ToolTypes |-> << >>]

\* hooks?.getToolClass?.(measurementGroup, dataset, map)
HookToolClass(measurementGroup) == measurementGroup.hookAdapter

\* variant: the registry is asked first and the hook only when it finds nothing
DecodeGroupRegistryFirst(byType, st, groups, i) ==
    LET measurementGroup == groups[i]
        hooked   == HookToolClass(measurementGroup)
        resolved == Resolve(byType, st.byId, measurementGroup.trackingIdentifier)
        toolAdapter == IF resolved.adapter # NoAdapter THEN resolved.adapter ELSE hooked
        probedAfter == st.probed \o resolved.probed
    IN  IF measurementGroup.trackingIdentifier = NoTrackingIdentifier
        THEN [st EXCEPT !.warned = Append(@, i)]
        ELSE IF toolAdapter = NoAdapter
        THEN [st EXCEPT !.byId = resolved.byId, !.probed = probedAfter]
        ELSE IF GetMeasurementDataRaises(toolAdapter, measurementGroup)
        THEN [st EXCEPT !.byId = resolved.byId, !.probed = probedAfter,
                        !.warned = Append(@, i)]
        ELSE [st EXCEPT !.byId = resolved.byId, !.probed = probedAfter,
                        !.measurementData[toolType(toolAdapter)] =
                            Append(@, [group |-> i, adapter |-> toolAdapter])]

\* variant: a group whose extraction raised loses its identifier entry
DecodeGroupEvictsOnFailure(byType, st, groups, i) ==
    LET measurementGroup == groups[i]
        hooked   == HookToolClass(measurementGroup)
        resolved == Resolve(byType, st.byId, measurementGroup.trackingIdentifier)
        toolAdapter == IF hooked # NoAdapter THEN hooked ELSE resolved.adapter
        byIdAfter   == IF hooked # NoAdapter THEN st.byId ELSE resolved.byId
        probedAfter == IF hooked # NoAdapter THEN st.probed
                       ELSE st.probed \o resolved.probed
    IN  IF measurementGroup.trackingIdentifier = NoTrackingIdentifier
        THEN [st EXCEPT !.warned = Append(@, i)]
        ELSE IF toolAdapter = NoAdapter
        THEN [st EXCEPT !.byId = byIdAfter, !.probed = probedAfter]
        ELSE IF GetMeasurementDataRaises(toolAdapter, measurementGroup)
        THEN [st EXCEPT !.byId = [byIdAfter EXCEPT
                                    ![measurementGroup.trackingIdentifier] = NoAdapter],
                        !.probed = probedAfter,
                        !.warned = Append(@, i)]
        ELSE [st EXCEPT !.byId = byIdAfter, !.probed = probedAfter,
                        !.measurementData[toolType(toolAdapter)] =
                            Append(@, [group |-> i, adapter |-> toolAdapter])]

\* the try block for one measurement group, from the registry state st
\* (identifier map, result so far, validators probed so far)
DecodeGroup(byType, st, groups, i) ==
    LET measurementGroup == groups[i]
        hooked   == HookToolClass(measurementGroup)
        resolved == Resolve(byType, st.byId, measurementGroup.trackingIdentifier)
        toolAdapter == IF hooked # NoAdapter THEN hooked ELSE resolved.adapter
        byIdAfter   == IF hooked # NoAdapter THEN st.byId ELSE resolved.byId
        probedAfter == IF hooked # NoAdapter THEN st.probed
                       ELSE st.probed \o resolved.probed
    IN  IF measurementGroup.trackingIdentifier = NoTrackingIdentifier
        THEN [st EXCEPT !.warned = Append(@, i)]
        ELSE IF toolAdapter = NoAdapter
        THEN [st EXCEPT !.byId = byIdAfter, !.probed = probedAfter]
        ELSE IF GetMeasurementDataRaises(toolAdapter, measurementGroup)
        THEN [st EXCEPT !.byId = byIdAfter, !.probed = probedAfter,
                        !.warned = Append(@, i)]
        ELSE [st EXCEPT !.byId = byIdAfter, !.probed = probedAfter,
                        !.measurementData[toolType(toolAdapter)] =
                            Append(@, [group |-> i, adapter |-> toolAdapter])]

\* variant: the try block encloses the loop, so the first group that raises
\* ends the decoding
RECURSIVE DecodeGroupsStopAtFailure(_, _, _, _)
DecodeGroupsStopAtFailure(byType, st, groups, i) ==
    IF i > Len(groups) THEN st
    ELSE LET after == DecodeGroup(byType, st, groups, i)
         IN  IF Len(after.warned) > Len(st.warned) THEN after
             ELSE DecodeGroupsStopAtFailure(byType, after, groups, i + 1)

\* measurementGroups.forEach(...)
RECURSIVE DecodeGroups(_, _, _, _)
DecodeGroups(byType, st, groups, i) ==
    IF i > Len(groups) THEN st
    ELSE DecodeGroups(byType, DecodeGroup(byType, st, groups, i), groups, i + 1)

\* variant: the template guard is missing
GenerateToolStateRaisesNoTemplateGuard(ds) ==
    ~ds.imagingMeasurements \/ ~ds.contentSequence

\* the template guard; the read of the ContentSequence of a missing "Imaging
\* Measurements" item; and, for an item without ContentSequence, the filter
\* over toArray(undefined) = [undefined], which reads the
\* ConceptNameCodeSequence of undefined: all outside the per-group try block
GenerateToolStateRaises(ds) ==
    \/ ds.TemplateIdentifier # "1500"
    \/ ~ds.imagingMeasurements
    \/ ~ds.contentSequence

ParseDataset(byType, byId, ds) ==
    LET start == [byId |-> byId, measurementData |-> EmptyMeasurementData,
                  probed |-> << >>, warned |-> << >>]
    IN  IF GenerateToolStateRaises(ds) THEN start
        ELSE DecodeGroups(byType, start, ds.groups, 1)

----------------------------------------------------------------------------
(* generateReport.  The tool state maps image ids (in key order) to tool    *)
(* data, which maps tool kinds (in key order) to a list of annotations; of  *)
(* an annotation list the assembler reads only its length.  The metadata    *)
(* provider is the table below.                                             *)

NO_IMAGE_ID == "none"

ImageIds == {"image1", "image2", "image3"}

\* metadataProvider.get("instance", imageId).SeriesInstanceUID
SeriesInstanceUID(imageId) ==
    IF imageId \in {"image1", "image2"} THEN "series1" ELSE "series2"

\* metadataProvider.get("sopCommonModule", imageId).sopInstanceUID
sopInstanceUID(imageId) == <<"sop", imageId>>

\* metadataProvider.get("instance", imageId).NumberOfFrames (0: not set)
NumberOfFrames(imageId) == IF imageId = "image3" THEN 2 ELSE 0

\* Normalizer.isMultiframeSOPClassUID(sopClassUID) of the image
isMultiframeSOPClassUID(imageId) == imageId = "image2"

\* metadataProvider.get("frameNumber", imageId)
frameNumber(imageId) == 1

\* the first image of the volume the annotations of a volumetric source
\* (key NO_IMAGE_ID) refer to
VolumeFirstImageId == "image1"

NoFrameNumber == 0

NoGroup == [toolType |-> "undefined"]

ToolDataLists ==
    {td \in UNION {[1..n -> [toolType : ToolTypes, data : 0..MaxAnnotations]] :
                      n \in 0..Cardinality(ToolTypes)} :
        \A i, j \in 1..Len(td) : td[i].toolType = td[j].toolType => i = j}

ToolStates ==
    {ts \in UNION {[1..n -> [imageId  : ImageIds \cup {NO_IMAGE_ID},
                               toolData : ToolDataLists]] : n \in 0..MaxImages} :
        \A i, j \in 1..Len(ts) : ts[i].imageId = ts[j].imageId => i = j}

\* getImageIdFromVolume raises when the tool data has no first annotation
\* to name a volume
ImageIdFromVolumeRaises(toolData) ==
    \/ toolData = << >>
    \/ toolData[1].data = 0

EffectiveImageId(imageId, toolData) ==
    IF imageId = NO_IMAGE_ID THEN VolumeFirstImageId ELSE imageId

\* variant: the SOP class is not consulted
IsMultiframeByFrameCountOnly(imageId) == NumberOfFrames(imageId) > 1

IsMultiframe(imageId) ==
    NumberOfFrames(imageId) > 1 \/ isMultiframeSOPClassUID(imageId)

ReferencedSOPSequenceOf(effectiveImageId) ==
    [ReferencedSOPInstanceUID |-> sopInstanceUID(effectiveImageId),
     ReferencedFrameNumber    |-> IF IsMultiframe(effectiveImageId)
                                  THEN frameNumber(effectiveImageId)
                                  ELSE NoFrameNumber]

\* variant: every image appends an entry
DerivationSourceDatasetsAppended(derivationSourceDatasets, effectiveImageId) ==
    Append(derivationSourceDatasets,
           [SeriesInstanceUID |-> SeriesInstanceUID(effectiveImageId),
            instance          |-> effectiveImageId])

\* the derivation-source list after generateReferencedSOPSequence for an image
DerivationSourceDatasetsAfter(derivationSourceDatasets, effectiveImageId) ==
    IF \E k \in 1..Len(derivationSourceDatasets) :
           derivationSourceDatasets[k].SeriesInstanceUID
               = SeriesInstanceUID(effectiveImageId)
    THEN derivationSourceDatasets
    ELSE Append(derivationSourceDatasets,
                [SeriesInstanceUID |-> SeriesInstanceUID(effectiveImageId),
                 instance          |-> effectiveImageId])

\* variant: the flag follows the image processed last
Is3DSROfLastImage(is3DSR, imageId) == imageId = NO_IMAGE_ID

\* if (imageId === NO_IMAGE_ID) is3DSR = true
Is3DSRAfter(is3DSR, imageId) == is3DSR \/ imageId = NO_IMAGE_ID

getMeasurementGroup(byType, toolTypeData, ReferencedSOPSequence) ==
    LET toolClass == MapGet(byType, toolTypeData.toolType)
    IN  IF toolTypeData.data = 0 \/ toolClass = NoAdapter
        THEN NoGroup
        ELSE [toolType              |-> toolTypeData.toolType,
              adapter               |-> toolClass,
              measurements          |-> toolTypeData.data,
              ReferencedSOPSequence |-> ReferencedSOPSequence]

\* toolTypes.forEach(...) of one image: the groups it contributes
RECURSIVE ImageMeasurementGroups(_, _, _, _)
ImageMeasurementGroups(byType, toolData, ReferencedSOPSequence, k) ==
    IF k > Len(toolData) THEN << >>
    ELSE LET group == getMeasurementGroup(byType, toolData[k], ReferencedSOPSequence)
             rest  == ImageMeasurementGroups(byType, toolData, ReferencedSOPSequence, k + 1)
         IN  IF group = NoGroup THEN rest ELSE <<group>> \o rest

\* Object.keys(toolState).forEach(...) from image i on
RECURSIVE AssembleImages(_, _, _, _)
AssembleImages(byType, ts, i, rp) ==
    IF i > Len(ts) \/ rp.raised THEN rp
    ELSE LET imageId  == ts[i].imageId
             toolData == ts[i].toolData
             effectiveImageId == EffectiveImageId(imageId, toolData)
             ReferencedSOPSequence == ReferencedSOPSequenceOf(effectiveImageId)
         IN  IF imageId = NO_IMAGE_ID /\ ImageIdFromVolumeRaises(toolData)
             THEN [rp EXCEPT !.raised = TRUE]
             ELSE AssembleImages(byType, ts, i + 1,
                    [rp EXCEPT
                       !.derivationSourceDatasets =
                           DerivationSourceDatasetsAfter(@, effectiveImageId),
                       !.derivationTrace =
                           Append(@, DerivationSourceDatasetsAfter(
                                         rp.derivationSourceDatasets, effectiveImageId)),
                       !.referenced =
                           Append(@, [imageId |-> effectiveImageId,
                                      ReferencedSOPSequence |-> ReferencedSOPSequence]),
                       !.is3DSR = Is3DSRAfter(@, imageId),
                       !.allMeasurementGroups =
                           @ \o ImageMeasurementGroups(byType, toolData,
                                                       ReferencedSOPSequence, 1)])

\* what generateReport builds: the groups and the derivation list handed to
\* the document, the 3D flag that selects the SOP class, and per image, in
\* processing order, the reference generateReferencedSOPSequence returned and
\* the derivation list it left
NoReport ==
    [raised |-> FALSE, allMeasurementGroups |-> << >>,
     derivationSourceDatasets |-> << >>, is3DSR |-> FALSE,
     referenced |-> << >>, derivationTrace |-> << >>]

\* report.dataset.SOPClassUID
SOPClassUID(report) ==
    IF report.is3DSR THEN "Comprehensive3DSR" ELSE "ComprehensiveSR"

AssembleReport(byType, ts) == AssembleImages(byType, ts, 1, NoReport)

----------------------------------------------------------------------------
(* The document of a report.  The content items are built by the adapters  *)
(* and the document codec from the groups generateReport hands over: every *)
(* annotation of a group becomes a Measurement Group whose Tracking         *)
(* Identifier is the primary identifier of the adapter that encoded it and  *)
(* whose NUM node has a SCOORD child for the referenced SOP instance.  The  *)
(* reports looked at refer to image1 only.                                   *)

EncodedGroup(group) ==
    [trackingIdentifier |-> trackingIdentifierTextValue(group.adapter),
     hookAdapter |-> NoAdapter,
     coordinates |-> "SCOORD"]

RECURSIVE EncodedGroups(_, _)
EncodedGroups(allMeasurementGroups, k) ==
    IF k > Len(allMeasurementGroups) THEN << >>
    ELSE [i \in 1..allMeasurementGroups[k].measurements |->
              EncodedGroup(allMeasurementGroups[k])]
         \o EncodedGroups(allMeasurementGroups, k + 1)

\* the annotation behind each Measurement Group: its tool kind and image
RECURSIVE EncodedAnnotations(_, _)
EncodedAnnotations(allMeasurementGroups, k) ==
    IF k > Len(allMeasurementGroups) THEN << >>
    ELSE [i \in 1..allMeasurementGroups[k].measurements |->
              [toolType |-> allMeasurementGroups[k].toolType,
               ReferencedSOPInstanceUID |->
                   allMeasurementGroups[k].ReferencedSOPSequence.ReferencedSOPInstanceUID,
               annotation |-> i]]
         \o EncodedAnnotations(allMeasurementGroups, k + 1)

DocumentOf(report) ==
    [TemplateIdentifier |-> "1500", imagingMeasurements |-> TRUE,
     contentSequence |-> TRUE,
     groups |-> EncodedGroups(report.allMeasurementGroups, 1)]

\* the annotations of a tool state, image by image and kind by kind
RECURSIVE ToolDataAnnotations(_, _, _)
ToolDataAnnotations(imageId, toolData, k) ==
    IF k > Len(toolData) THEN << >>
    ELSE [i \in 1..toolData[k].data |->
              [toolType |-> toolData[k].toolType,
               ReferencedSOPInstanceUID |-> sopInstanceUID(imageId),
               annotation |-> i]]
         \o ToolDataAnnotations(imageId, toolData, k + 1)

RECURSIVE ToolStateAnnotations(_, _)
ToolStateAnnotations(ts, i) ==
    IF i > Len(ts) THEN << >>
    ELSE ToolDataAnnotations(EffectiveImageId(ts[i].imageId, ts[i].toolData),
                             ts[i].toolData, 1)
         \o ToolStateAnnotations(ts, i + 1)

----------------------------------------------------------------------------
(* Observation of the most recent call *)

NoCall ==
    [op             |-> "none",
     raised         |-> FALSE,
     adapter        |-> NoAdapter,   \* adapter argument
     replace        |-> "omitted",   \* replace argument of registerTool
     identifiers    |-> << >>,       \* identifier arguments
     result         |-> NoAdapter,   \* adapter returned by a resolve
     callbackCalls  |-> << >>,       \* invocations of the replace callback
     probed         |-> << >>,       \* validators called, in order
     measurementData |-> [t \in ToolTypes |-> << >>],  \* map returned by a parse
     warned         |-> << >>,       \* groups whose failure was logged
     report         |-> NoReport,    \* report returned by generateReport
     priorFallback  |-> NoAdapter,   \* see getAdapterForTrackingIdentifier
     args           |-> << >>,       \* arguments of a helper call
     value          |-> "undefined", \* what a helper call returned
     coordinates    |-> NoCoordinates, \* what the geometry resolver did
     defaultState   |-> NoState,     \* state processSpatialCoordinatesGroup returned
     events         |-> << >>]       \* events triggered on the event target, in order

----------------------------------------------------------------------------
(* Actions *)

\* the registry after class initialisation, before any call
InitRegistry ==
    /\ measurementAdapterByToolType = << >>
    /\ measurementAdapterByTrackingIdentifier = EmptyIdentifierMap
    /\ toolGroups = << >>
    /\ tools = {}
    /\ renderingEngines = << >>
    /\ last = NoCall

EmptyDataset ==
    [TemplateIdentifier |-> "1500", imagingMeasurements |-> TRUE,
     contentSequence |-> TRUE, groups |-> << >>]

PlainGroup(trackingIdentifier) ==
    [trackingIdentifier |-> trackingIdentifier, hookAdapter |-> NoAdapter,
     coordinates |-> "SCOORD3D"]

\* the inputs of the registry specification: a one-group document whose
\* identifier only validators accept, under either template, and the
\* annotations of one image
RegistryDatasets ==
    {[TemplateIdentifier |-> t, imagingMeasurements |-> TRUE,
      contentSequence |-> TRUE,
      groups |-> <<PlainGroup("CS3D:Any")>>] : t \in TemplateIdentifiers}

RegistryToolState ==
    <<[imageId |-> "image1", toolData |-> <<[toolType |-> "Length", data |-> 1]>>]>>

Init ==
    /\ InitRegistry
    /\ dataset \in RegistryDatasets
    /\ toolState = RegistryToolState

InitParse ==
    /\ InitRegistry
    /\ dataset \in Datasets
    /\ toolState = << >>

registerTool(toolAdapter, replace) ==
    /\ measurementAdapterByToolType' =
           RegisterToolByType(measurementAdapterByToolType, toolAdapter, replace)
    /\ measurementAdapterByTrackingIdentifier' =
           RegisterToolByIdentifier(measurementAdapterByToolType,
                                    measurementAdapterByTrackingIdentifier,
                                    toolAdapter, replace)
    /\ last' = [NoCall EXCEPT
                  !.op = "registerTool",
                  !.adapter = toolAdapter,
                  !.replace = replace,
                  !.raised = RegisterToolRaises(measurementAdapterByToolType,
                                                toolAdapter, replace),
                  !.callbackCalls = ReplaceCallbackCalls(measurementAdapterByToolType,
                                                         toolAdapter, replace)]
    /\ UNCHANGED <<inputs, toolGroupState>>

registerTrackingIdentifier(toolClass, trackingIdentifiers) ==
    /\ measurementAdapterByTrackingIdentifier' =
           RegisterIdentifiers(measurementAdapterByTrackingIdentifier,
                               toolClass, trackingIdentifiers)
    /\ last' = [NoCall EXCEPT
                  !.op = "registerTrackingIdentifier",
                  !.adapter = toolClass,
                  !.identifiers = trackingIdentifiers]
    /\ UNCHANGED <<measurementAdapterByToolType, inputs, toolGroupState>>

getAdapterForTrackingIdentifier(trackingIdentifier) ==
    LET r == Resolve(measurementAdapterByToolType,
                     measurementAdapterByTrackingIdentifier, trackingIdentifier)
    IN  /\ measurementAdapterByTrackingIdentifier' = r.byId
        /\ last' = [NoCall EXCEPT
                      !.op = "getAdapterForTrackingIdentifier",
                      !.identifiers = <<trackingIdentifier>>,
                      !.result = r.adapter,
                      !.probed = r.probed,
                      \* what the immediately preceding call returned, when it
                      \* resolved the same identifier through the fallback probe
                      !.priorFallback =
                          IF /\ last.op = "getAdapterForTrackingIdentifier"
                             /\ last.identifiers = <<trackingIdentifier>>
                             /\ last.probed # << >>
                          THEN last.result
                          ELSE NoAdapter]
        /\ UNCHANGED <<measurementAdapterByToolType, inputs, toolGroupState>>

generateToolState(ds) ==
    LET r == ParseDataset(measurementAdapterByToolType,
                          measurementAdapterByTrackingIdentifier, ds)
    IN  /\ measurementAdapterByTrackingIdentifier' = r.byId
        /\ last' = [NoCall EXCEPT
                      !.op = "generateToolState",
                      !.raised = GenerateToolStateRaises(ds),
                      !.measurementData = r.measurementData,
                      !.probed = r.probed,
                      !.warned = r.warned]
        /\ UNCHANGED <<measurementAdapterByToolType, inputs, toolGroupState>>

generateReport(ts) ==
    LET r == AssembleReport(measurementAdapterByToolType, ts)
    IN  /\ last' = [NoCall EXCEPT
                      !.op = "generateReport",
                      !.raised = r.raised,
                      !.report = IF r.raised THEN NoReport ELSE r]
        /\ UNCHANGED <<measurementAdapterByToolType,
                       measurementAdapterByTrackingIdentifier, inputs, toolGroupState>>

\* the helpers are static methods without effect on the registry
codeValueMatchCall(group, code, oldCode) ==
    /\ last' = [NoCall EXCEPT
                  !.op = "codeValueMatch",
                  !.args = [group |-> group, code |-> code, oldCode |-> oldCode],
                  !.value = codeValueMatch(group, code, oldCode)]
    /\ UNCHANGED <<measurementAdapterByToolType,
                   measurementAdapterByTrackingIdentifier, inputs, toolGroupState>>

getCornerstoneLabelFromDefaultStateCall(defaultState) ==
    /\ last' = [NoCall EXCEPT
                  !.op = "getCornerstoneLabelFromDefaultState",
                  !.args = [defaultState |-> defaultState],
                  !.value = getCornerstoneLabelFromDefaultState(defaultState)]
    /\ UNCHANGED <<measurementAdapterByToolType,
                   measurementAdapterByTrackingIdentifier, inputs, toolGroupState>>


getSpatialCoordinatesStateCall(NUMGroup, toolType_) ==
    LET r == getSpatialCoordinatesState(NUMGroup, toolType_)
    IN  /\ last' = [NoCall EXCEPT
                      !.op = "getSpatialCoordinatesState",
                      !.args = [NUMGroup |-> NUMGroup],
                      !.raised = r.raised,
                      !.coordinates = r]
        /\ UNCHANGED <<measurementAdapterByToolType,
                       measurementAdapterByTrackingIdentifier, inputs, toolGroupState>>

processSpatialCoordinatesGroupCall(NUMGroup, finding, findingSites, toolType_) ==
    LET r == processSpatialCoordinatesGroup(NUMGroup, finding, findingSites, toolType_)
    IN  /\ last' = [NoCall EXCEPT
                      !.op = "processSpatialCoordinatesGroup",
                      !.args = [NUMGroup |-> NUMGroup, finding |-> finding,
                                findingSites |-> findingSites],
                      !.raised = r.raised,
                      !.value = r.description,
                      !.defaultState = r.state]
        /\ UNCHANGED <<measurementAdapterByToolType,
                       measurementAdapterByTrackingIdentifier, inputs, toolGroupState>>

\* the rest arguments: lists of distinct identifiers
IdentifierLists ==
    {ids \in UNION {[1..n -> TrackingIds] : n \in 0..MaxIdentifiers} :
        \A i, j \in 1..Len(ids) : ids[i] = ids[j] => i = j}

RegisterTool ==
    \E toolAdapter \in Adapters, replace \in ReplaceArgs :
        registerTool(toolAdapter, replace)

RegisterTrackingIdentifier ==
    \E toolClass \in Adapters, trackingIdentifiers \in IdentifierLists :
        registerTrackingIdentifier(toolClass, trackingIdentifiers)

GetAdapterForTrackingIdentifier ==
    \E trackingIdentifier \in TrackingIds :
        getAdapterForTrackingIdentifier(trackingIdentifier)

GenerateToolState == generateToolState(dataset)

GenerateReport == generateReport(toolState)

Next ==
    \/ RegisterTool
    \/ RegisterTrackingIdentifier
    \/ GetAdapterForTrackingIdentifier
    \/ GenerateToolState
    \/ GenerateReport

Spec == Init /\ [][Next]_vars

NextParse ==
    \/ RegisterTool
    \/ GenerateToolState

SpecParse == InitParse /\ [][NextParse]_vars

InitHelpers ==
    /\ InitRegistry
    /\ dataset = EmptyDataset
    /\ toolState = << >>

CodeValueMatch ==
    \E group \in ContentNodes, code \in Codes, oldCode \in Optional(Codes) :
        codeValueMatchCall(group, code, oldCode)

GetCornerstoneLabelFromDefaultState ==
    \E defaultState \in DefaultStates :
        getCornerstoneLabelFromDefaultStateCall(defaultState)

NextHelpers ==
    \/ CodeValueMatch
    \/ GetCornerstoneLabelFromDefaultState

SpecHelpers == InitHelpers /\ [][NextHelpers]_vars

\* documents whose groups all carry the primary identifier of the length
\* adapters and differ in the coordinate children of their NUM node
GeometryDatasets ==
    {[TemplateIdentifier |-> "1500", imagingMeasurements |-> TRUE,
     contentSequence |-> TRUE, groups |-> gs] :
        gs \in UNION {[1..n -> {[PlainGroup("CS3D:Length") EXCEPT !.coordinates = c] :
                                    c \in GeometryCoordinateChildren}] :
                      n \in 0..MaxGroups}}

InitGeometry ==
    /\ InitRegistry
    /\ dataset \in GeometryDatasets
    /\ toolState = << >>

\* the resolver applied to the NUM node of a group of the document
GetSpatialCoordinatesState ==
    \E i \in 1..Len(dataset.groups), toolType_ \in ToolTypes :
        getSpatialCoordinatesStateCall(NUMGroupOf(dataset.groups[i]), toolType_)

NextGeometry ==
    \/ RegisterTool
    \/ GenerateToolState
    \/ GetSpatialCoordinatesState

SpecGeometry == InitGeometry /\ [][NextGeometry]_vars

\* tool states whose images carry annotations of at most one tool kind, or
\* one annotation of each kind
ReportToolData ==
    {<< >>, <<[toolType |-> "Probe", data |-> 1], [toolType |-> "Length", data |-> 1]>>}
    \cup {<<[toolType |-> "Length", data |-> n]>> : n \in 0..MaxAnnotations}

ReportToolStates == {ts \in ToolStates : \A i \in 1..Len(ts) : ts[i].toolData \in ReportToolData}

InitReport ==
    /\ InitRegistry
    /\ dataset = EmptyDataset
    /\ toolState \in ReportToolStates

NextReport ==
    \/ RegisterTool
    \/ GenerateReport

SpecReport == InitReport /\ [][NextReport]_vars

\* documents without hook answers, parsed while reports are generated: the
\* groups carry an identifier a registered adapter owns or accepts, with or
\* without coordinates, or one nobody accepts
SharedGroups ==
    {g \in MeasurementGroups :
        /\ g.hookAdapter = NoAdapter
        /\ \/ g.trackingIdentifier \in {"CS3D:Length", "CS3D:Any"}
           \/ g.trackingIdentifier = "Other" /\ g.coordinates = "SCOORD3D"}

SharedDatasets ==
    {[TemplateIdentifier |-> "1500", imagingMeasurements |-> TRUE,
     contentSequence |-> TRUE, groups |-> gs] :
        gs \in UNION {[1..n -> SharedGroups] : n \in 0..MaxGroups}}

InitShared ==
    /\ InitRegistry
    /\ dataset \in SharedDatasets
    /\ toolState = RegistryToolState

NextShared ==
    \/ RegisterTool
    \/ GenerateToolState
    \/ GenerateReport

SpecShared == InitShared /\ [][NextShared]_vars

\* the label step of the decoding, for the three kinds of NUM node
ProcessSpatialCoordinatesGroup ==
    \E defaultState \in DefaultStates, coordinates \in {"SCOORD3D", "SCOORD", "none"} :
        processSpatialCoordinatesGroupCall(
            NUMGroupOf([coordinates |-> coordinates]),
            defaultState.finding, defaultState.findingSites, "Length")

SpecLabel == InitHelpers /\ [][ProcessSpatialCoordinatesGroup]_vars

\* the registry used through registerTool and getAdapterForTrackingIdentifier only
NextCache ==
    \/ RegisterTool
    \/ GetAdapterForTrackingIdentifier

SpecCache == Init /\ [][NextCache]_vars

----------------------------------------------------------------------------
(* ToolGroup (packages/tools/src/store/ToolGroupManager/ToolGroup.ts)       *)

\* most instances constructed for one tool name of one group
MaxInstances == 2

\* mode of an instance no setter has touched; absent name (null)
NoMode == "undefined"
NoToolName == "null"

\* state.tools at start: the tool names registered with the library
RegisteredToolNames == {"Pan", "Zoom"}

\* the names addToolInstance registers as subclasses of a registered tool
DerivedToolNames == {"PanCopy"}

\* every name a group can hold an instance, options or restore options for
ToolNames == RegisteredToolNames \cup DerivedToolNames

\* tool names without an entry in state.tools, and the names addTool rejects
UnregisteredToolName == "Unregistered"
MissingToolNames == {"", "undefined"}

Binding(mouseButton, modifierKey, numTouchPoints) ==
    [mouseButton |-> mouseButton, modifierKey |-> modifierKey,
     numTouchPoints |-> numTouchPoints]

PrimaryBinding == Binding("Primary", "undefined", "undefined")
SecondaryBinding == Binding("Secondary", "undefined", "undefined")
ShiftPrimaryBinding == Binding("Primary", "Shift", "undefined")
TouchBinding == Binding("undefined", "undefined", "2")
EmptyBinding == Binding("undefined", "undefined", "undefined")

PRIMARY_BINDINGS == <<PrimaryBinding>>

hasSameBindingIgnoringModifierKey(binding1, binding2) ==
    IF binding1.mouseButton # binding2.mouseButton THEN FALSE
    ELSE binding1.numTouchPoints = binding2.numTouchPoints

hasSameBinding(binding1, binding2) ==
    IF binding1.mouseButton # binding2.mouseButton THEN FALSE
    ELSE IF binding1.numTouchPoints # binding2.numTouchPoints THEN FALSE
    ELSE binding1.modifierKey = binding2.modifierKey

\* bindings.some(b => hasSameBinding(b, binding))
SomeSameBinding(bindings, binding) ==
    \E i \in 1..Len(bindings) : hasSameBinding(bindings[i], binding)

\* new ToolGroup(id): the field initialisers of the class
NewToolGroup(id) ==
    [id |-> id,
     viewportsInfo |-> << >>,
     toolOptions |-> [t \in ToolNames |-> << >>],
     currentActivePrimaryToolName |-> NoToolName,
     prevActivePrimaryToolName |-> NoToolName,
     restoreToolOptions |-> [t \in ToolNames |-> << >>],
     toolInstances |-> << >>]

\* position of the instance of toolName among the keys of _toolInstances, 0 if none
InstanceIndex(toolGroup, toolName) ==
    IF \E i \in 1..Len(toolGroup.toolInstances) :
          toolGroup.toolInstances[i].toolName = toolName
    THEN CHOOSE i \in 1..Len(toolGroup.toolInstances) :
            toolGroup.toolInstances[i].toolName = toolName
    ELSE 0

hasTool(toolGroup, toolName) == InstanceIndex(toolGroup, toolName) # 0

\* what a method of the group leaves behind: the group, the events it
\* triggered, whether it warned and whether it threw
MethodResult(toolGroup, events, warned, raised) ==
    [group |-> toolGroup, events |-> events, warned |-> warned, raised |-> raised]

ToolActivated(toolName) ==
    [type |-> "TOOL_ACTIVATED", toolName |-> toolName, mode |-> NoMode]

ToolModeChanged(toolName, mode) ==
    [type |-> "TOOL_MODE_CHANGED", toolName |-> toolName, mode |-> mode]

ViewportAdded(viewportId, renderingEngineId) ==
    [type |-> "TOOLGROUP_VIEWPORT_ADDED", viewportId |-> viewportId,
     renderingEngineId |-> renderingEngineId]

ViewportRemoved(viewportId, renderingEngineId) ==
    [type |-> "TOOLGROUP_VIEWPORT_REMOVED", viewportId |-> viewportId,
     renderingEngineId |-> renderingEngineId]

\* stateTools: the names state.tools holds when the method runs
addTool(stateTools, toolGroup, toolName) ==
    IF toolName \in MissingToolNames THEN MethodResult(toolGroup, << >>, TRUE, FALSE)
    ELSE IF toolName \notin stateTools
    THEN MethodResult(toolGroup, << >>, TRUE, FALSE)
    ELSE IF toolGroup.toolOptions[toolName] # << >>
    THEN MethodResult(toolGroup, << >>, TRUE, FALSE)
    ELSE LET i == InstanceIndex(toolGroup, toolName)
         IN  MethodResult(
                 [toolGroup EXCEPT !.toolInstances =
                     IF i = 0
                     THEN Append(@, [toolName |-> toolName, serial |-> 1, mode |-> NoMode])
                     ELSE [@ EXCEPT ![i] = [toolName |-> toolName,
                                            serial |-> @.serial + 1, mode |-> NoMode]]],
                 << >>, FALSE, FALSE)

\* addToolInstance: the registry and the group afterwards.  A name without
\* an entry in state.tools is registered as a subclass of the parent class,
\* which must be registered, and then added under its own name.
addToolInstance(stateTools, toolGroup, toolName, parentClassName) ==
    IF toolName \in stateTools
    THEN [tools |-> stateTools, result |-> addTool(stateTools, toolGroup, toolName)]
    ELSE IF parentClassName \notin stateTools
    THEN [tools |-> stateTools, result |-> MethodResult(toolGroup, << >>, FALSE, TRUE)]
    ELSE [tools |-> stateTools \cup {toolName},
          result |-> addTool(stateTools \cup {toolName}, toolGroup, toolName)]

\* getRenderingEngine(id) of _renderViewports is undefined for some viewport
RenderViewportsRaises(toolGroup) ==
    \E i \in 1..Len(toolGroup.viewportsInfo) :
       \A e \in 1..Len(renderingEngines) :
          renderingEngines[e].id # toolGroup.viewportsInfo[i].renderingEngineId

\* the state a setter stored, then _renderViewports, then its events
RenderAndTrigger(toolGroup, events) ==
    IF RenderViewportsRaises(toolGroup) THEN MethodResult(toolGroup, << >>, FALSE, TRUE)
    ELSE MethodResult(toolGroup, events, FALSE, FALSE)

\* toolOptions[toolName] and the mode of the instance, set together
WithMode(toolGroup, toolName, bindings, mode) ==
    [toolGroup EXCEPT
       !.toolOptions[toolName] = <<[bindings |-> bindings, mode |-> mode]>>,
       !.toolInstances[InstanceIndex(toolGroup, toolName)].mode = mode]

UniqueBindingsKeepingAll(unique, bindings) == unique \o bindings

\* the reduce of setToolActive: first occurrences of the bindings that name
\* a mouse button or a number of touch points
RECURSIVE UniqueBindings(_, _)
UniqueBindings(unique, bindings) ==
    IF bindings = << >> THEN unique
    ELSE LET binding == Head(bindings)
             isTouchBinding == binding.numTouchPoints # "undefined"
             isMouseBinding == binding.mouseButton # "undefined"
         IN  UniqueBindings(
                 IF ~SomeSameBinding(unique, binding) /\ (isTouchBinding \/ isMouseBinding)
                 THEN Append(unique, binding) ELSE unique,
                 Tail(bindings))

hasMousePrimaryButtonBinding(bindings) ==
    \E i \in 1..Len(bindings) : SomeSameBinding(PRIMARY_BINDINGS, bindings[i])

setToolActive(toolGroup, toolName, bindings) ==
    IF ~hasTool(toolGroup, toolName) THEN MethodResult(toolGroup, << >>, TRUE, FALSE)
    ELSE LET prevBindings == IF toolGroup.toolOptions[toolName] # << >>
                             THEN toolGroup.toolOptions[toolName][1].bindings
                             ELSE << >>
             bindingsToUse == UniqueBindings(<< >>, prevBindings \o bindings)
             stored == WithMode(toolGroup, toolName, bindingsToUse, "Active")
             named ==
                 IF hasMousePrimaryButtonBinding(bindings)
                 THEN [stored EXCEPT
                         !.prevActivePrimaryToolName =
                             IF toolGroup.prevActivePrimaryToolName = NoToolName
                             THEN toolName
                             ELSE toolGroup.currentActivePrimaryToolName,
                         !.currentActivePrimaryToolName = toolName]
                 ELSE stored
         IN  RenderAndTrigger(named, <<ToolActivated(toolName),
                                       ToolModeChanged(toolName, "Active")>>)

\* the removeAllBindings option: omitted, a boolean or a list of bindings
RemoveAllBindings(kind, bindings) == [kind |-> kind, bindings |-> bindings]

RECURSIVE KeptBindings(_, _, _)
KeptBindings(bindings, removeAllBindings, matchBindings) ==
    IF bindings = << >> THEN << >>
    ELSE LET rest == KeptBindings(Tail(bindings), removeAllBindings, matchBindings)
         IN  IF /\ removeAllBindings.kind # "true"
                /\ ~SomeSameBinding(matchBindings, Head(bindings))
             THEN <<Head(bindings)>> \o rest
             ELSE rest

setToolPassiveKeepingMode(toolGroup, toolName, removeAllBindings) ==
    IF ~hasTool(toolGroup, toolName) THEN MethodResult(toolGroup, << >>, TRUE, FALSE)
    ELSE LET prevToolOptions == toolGroup.toolOptions[toolName]
             prevBindings == IF prevToolOptions # << >> THEN prevToolOptions[1].bindings
                             ELSE << >>
             matchBindings == IF removeAllBindings.kind = "array"
                              THEN removeAllBindings.bindings
                              ELSE PRIMARY_BINDINGS
             bindings == KeptBindings(prevBindings, removeAllBindings, matchBindings)
         IN  RenderAndTrigger(WithMode(toolGroup, toolName, bindings, "Passive"),
                              <<ToolModeChanged(toolName, "Passive")>>)

setToolPassive(toolGroup, toolName, removeAllBindings) ==
    IF ~hasTool(toolGroup, toolName) THEN MethodResult(toolGroup, << >>, TRUE, FALSE)
    ELSE LET prevToolOptions == toolGroup.toolOptions[toolName]
             prevBindings == IF prevToolOptions # << >> THEN prevToolOptions[1].bindings
                             ELSE << >>
             matchBindings == IF removeAllBindings.kind = "array"
                              THEN removeAllBindings.bindings
                              ELSE PRIMARY_BINDINGS
             bindings == KeptBindings(prevBindings, removeAllBindings, matchBindings)
             mode == IF Len(bindings) # 0 THEN "Active" ELSE "Passive"
         IN  RenderAndTrigger(WithMode(toolGroup, toolName, bindings, mode),
                              <<ToolModeChanged(toolName, "Passive")>>)

setToolEnabled(toolGroup, toolName) ==
    IF ~hasTool(toolGroup, toolName) THEN MethodResult(toolGroup, << >>, TRUE, FALSE)
    ELSE RenderAndTrigger(WithMode(toolGroup, toolName, << >>, "Enabled"),
                          <<ToolModeChanged(toolName, "Enabled")>>)

setToolDisabled(toolGroup, toolName) ==
    IF ~hasTool(toolGroup, toolName) THEN MethodResult(toolGroup, << >>, TRUE, FALSE)
    ELSE LET saved == [toolGroup EXCEPT
                         !.restoreToolOptions[toolName] = toolGroup.toolOptions[toolName]]
         IN  RenderAndTrigger(WithMode(saved, toolName, << >>, "Disabled"),
                              <<ToolModeChanged(toolName, "Disabled")>>)

\* options is << >> for null and <<[bindings |-> ..]>> for an object; an
\* omitted argument is the default {}, an object without bindings
\* the options of a call that omits them (the default {}), and null
DefaultOptions == <<[bindings |-> << >>]>>
NullOptions == << >>

setToolMode(toolGroup, toolName, mode, options) ==
    IF toolName \in {"", "undefined", NoToolName}
    THEN MethodResult(toolGroup, << >>, TRUE, FALSE)
    ELSE IF mode = "Active"
    THEN LET restore == IF toolName \in ToolNames
                        THEN toolGroup.restoreToolOptions[toolName] ELSE << >>
             toolBindingsOptions == IF options # << >> THEN options ELSE restore
         IN  setToolActive(toolGroup, toolName,
                           IF toolBindingsOptions # << >>
                           THEN toolBindingsOptions[1].bindings ELSE << >>)
    ELSE IF mode = "Passive"
    THEN setToolPassive(toolGroup, toolName, RemoveAllBindings("omitted", << >>))
    ELSE IF mode = "Enabled" THEN setToolEnabled(toolGroup, toolName)
    ELSE IF mode = "Disabled" THEN setToolDisabled(toolGroup, toolName)
    ELSE MethodResult(toolGroup, << >>, TRUE, FALSE)

setActivePrimaryToolActivatingFirst(toolGroup, toolName) ==
    LET activated == setToolActive(toolGroup, toolName, PRIMARY_BINDINGS)
        disabled == setToolDisabled(activated.group,
                                    toolGroup.currentActivePrimaryToolName)
    IN  IF activated.raised THEN activated
        ELSE MethodResult(disabled.group, activated.events \o disabled.events,
                          activated.warned \/ disabled.warned, disabled.raised)

setActivePrimaryTool(toolGroup, toolName) ==
    LET disabled == setToolDisabled(toolGroup, toolGroup.currentActivePrimaryToolName)
        activated == setToolActive(disabled.group, toolName, PRIMARY_BINDINGS)
    IN  IF disabled.raised THEN disabled
        ELSE MethodResult(activated.group, disabled.events \o activated.events,
                          disabled.warned \/ activated.warned, activated.raised)

\* getToolGroup(id): position in state.toolGroups, 0 if there is none
getToolGroup(groups, id) ==
    IF \E i \in 1..Len(groups) : groups[i].id = id
    THEN CHOOSE i \in 1..Len(groups) : groups[i].id = id
    ELSE 0

\* Object.keys(this._toolInstances).filter(fnToolFilter)
RECURSIVE FilteredToolNames(_, _)
FilteredToolNames(toolInstances, accepted) ==
    IF toolInstances = << >> THEN << >>
    ELSE (IF Head(toolInstances).toolName \in accepted
          THEN <<Head(toolInstances).toolName>> ELSE << >>)
         \o FilteredToolNames(Tail(toolInstances), accepted)

\* the forEach of clone: the new group after the tools named, stopping at
\* the first one that throws
RECURSIVE CloneTools(_, _, _)
CloneTools(done, source, toolNames) ==
    IF toolNames = << >> \/ done.raised THEN done
    ELSE LET toolName == Head(toolNames)
             sourceToolOptions == source.toolOptions[toolName]
             sourceToolMode ==
                 source.toolInstances[InstanceIndex(source, toolName)].mode
             added == addTool(tools, done.group, toolName)
             moded == setToolMode(added.group, toolName, sourceToolMode,
                                  <<[bindings |-> sourceToolOptions[1].bindings]>>)
         IN  IF sourceToolOptions = << >>
             THEN MethodResult(added.group, done.events, done.warned, TRUE)
             ELSE CloneTools(
                      MethodResult(moded.group, done.events \o moded.events,
                                   done.warned \/ moded.warned, moded.raised),
                      source, Tail(toolNames))

\* clone: the store afterwards, the position of the group returned, the
\* events, whether it threw
clone(groups, source, newToolGroupId, accepted) ==
    IF getToolGroup(groups, newToolGroupId) # 0
    THEN [groups |-> groups, returned |-> getToolGroup(groups, newToolGroupId),
          events |-> << >>, raised |-> FALSE]
    ELSE LET cloned == CloneTools(
                           MethodResult(NewToolGroup(newToolGroupId), << >>, FALSE, FALSE),
                           source, FilteredToolNames(source.toolInstances, accepted))
         IN  [groups |-> Append(groups, cloned.group),
              returned |-> IF cloned.raised THEN 0 ELSE Len(groups) + 1,
              events |-> cloned.events, raised |-> cloned.raised]

\* _findRenderingEngine: the id to use, or a throw
findRenderingEngine(viewportId, renderingEngineId) ==
    LET matchingEngines == {e \in 1..Len(renderingEngines) :
                               viewportId \in renderingEngines[e].viewports}
    IN  IF Len(renderingEngines) = 0 THEN [raised |-> TRUE, id |-> "undefined"]
        ELSE IF renderingEngineId \notin {"undefined", "null", ""}
        THEN [raised |-> FALSE, id |-> renderingEngineId]
        ELSE IF Cardinality(matchingEngines) = 0
        THEN IF Len(renderingEngines) = 1
             THEN [raised |-> FALSE, id |-> renderingEngines[1].id]
             ELSE [raised |-> TRUE, id |-> "undefined"]
        ELSE IF Cardinality(matchingEngines) > 1
        THEN [raised |-> TRUE, id |-> "undefined"]
        ELSE [raised |-> FALSE,
              id |-> renderingEngines[CHOOSE e \in matchingEngines : TRUE].id]

\* viewportId arguments that are not strings: undefined and null
NotAString == {"undefined", "null"}

addViewport(toolGroup, viewportId, renderingEngineId) ==
    IF viewportId \in NotAString THEN MethodResult(toolGroup, << >>, FALSE, TRUE)
    ELSE LET renderingEngineUIDToUse == findRenderingEngine(viewportId, renderingEngineId)
         IN  IF renderingEngineUIDToUse.raised
             THEN MethodResult(toolGroup, << >>, FALSE, TRUE)
             ELSE MethodResult(
                      IF \E i \in 1..Len(toolGroup.viewportsInfo) :
                            toolGroup.viewportsInfo[i].viewportId = viewportId
                      THEN toolGroup
                      ELSE [toolGroup EXCEPT !.viewportsInfo =
                               Append(@, [viewportId |-> viewportId,
                                          renderingEngineId |-> renderingEngineUIDToUse.id])],
                      <<ViewportAdded(viewportId, renderingEngineUIDToUse.id)>>,
                      FALSE, FALSE)

\* removeViewports: the entries of the engine, or of them the one with the
\* viewportId when one is given, are spliced out; the event is always triggered
RECURSIVE RemainingViewports(_, _, _)
RemainingViewports(viewportsInfo, renderingEngineId, viewportId) ==
    IF viewportsInfo = << >> THEN << >>
    ELSE LET vpInfo == Head(viewportsInfo)
             match == /\ vpInfo.renderingEngineId = renderingEngineId
                      /\ \/ viewportId \in {"undefined", "null", ""}
                         \/ vpInfo.viewportId = viewportId
         IN  (IF match THEN << >> ELSE <<vpInfo>>)
             \o RemainingViewports(Tail(viewportsInfo), renderingEngineId, viewportId)

removeViewports(toolGroup, renderingEngineId, viewportId) ==
    MethodResult(
        [toolGroup EXCEPT !.viewportsInfo =
            RemainingViewports(@, renderingEngineId, viewportId)],
        <<ViewportRemoved(viewportId, renderingEngineId)>>, FALSE, FALSE)

\* the group the methods are called on: the first one of the store
ThisToolGroup == toolGroups[1]

\* a method of ThisToolGroup as a step: the group it leaves, and what the
\* caller and the listeners of the event target saw
MethodCall(name, args, result) ==
    /\ toolGroups' = [toolGroups EXCEPT ![1] = result.group]
    /\ last' = [NoCall EXCEPT
                  !.op = name,
                  !.args = args,
                  !.raised = result.raised,
                  !.value = IF result.warned THEN "warned" ELSE "undefined",
                  !.events = result.events]
    /\ UNCHANGED <<measurementAdapterByToolType,
                   measurementAdapterByTrackingIdentifier, inputs, renderingEngines>>

MethodCallOfGroup(name, args, result) ==
    /\ MethodCall(name, args, result)
    /\ UNCHANGED tools

addToolCall(toolName) ==
    LET result == addTool(tools, ThisToolGroup, toolName)
    IN  /\ \A i \in 1..Len(result.group.toolInstances) :
              result.group.toolInstances[i].serial <= MaxInstances
        /\ MethodCallOfGroup("addTool", [toolName |-> toolName], result)

addToolInstanceCall(toolName, parentClassName) ==
    LET added == addToolInstance(tools, ThisToolGroup, toolName, parentClassName)
    IN  /\ \A i \in 1..Len(added.result.group.toolInstances) :
              added.result.group.toolInstances[i].serial <= MaxInstances
        /\ tools' = added.tools
        /\ MethodCall("addToolInstance",
                      [toolName |-> toolName, parentClassName |-> parentClassName],
                      added.result)

setToolActiveCall(toolName, bindings) ==
    MethodCallOfGroup("setToolActive", [toolName |-> toolName, bindings |-> bindings],
               setToolActive(ThisToolGroup, toolName, bindings))

setToolPassiveCall(toolName, removeAllBindings) ==
    MethodCallOfGroup("setToolPassive",
               [toolName |-> toolName, removeAllBindings |-> removeAllBindings],
               setToolPassive(ThisToolGroup, toolName, removeAllBindings))

setToolEnabledCall(toolName) ==
    MethodCallOfGroup("setToolEnabled", [toolName |-> toolName],
               setToolEnabled(ThisToolGroup, toolName))

setToolDisabledCall(toolName) ==
    MethodCallOfGroup("setToolDisabled", [toolName |-> toolName],
               setToolDisabled(ThisToolGroup, toolName))

setActivePrimaryToolCall(toolName) ==
    MethodCallOfGroup("setActivePrimaryTool", [toolName |-> toolName],
               setActivePrimaryTool(ThisToolGroup, toolName))

setToolModeCall(toolName, mode, options) ==
    MethodCallOfGroup("setToolMode",
               [toolName |-> toolName, mode |-> mode, options |-> options],
               setToolMode(ThisToolGroup, toolName, mode, options))

addViewportCall(viewportId, renderingEngineId) ==
    MethodCallOfGroup("addViewport",
               [viewportId |-> viewportId, renderingEngineId |-> renderingEngineId],
               addViewport(ThisToolGroup, viewportId, renderingEngineId))

removeViewportsCall(renderingEngineId, viewportId) ==
    MethodCallOfGroup("removeViewports",
                      [renderingEngineId |-> renderingEngineId,
                       viewportId |-> viewportId],
                      removeViewports(ThisToolGroup, renderingEngineId, viewportId))

cloneCall(newToolGroupId, accepted) ==
    LET result == clone(toolGroups, ThisToolGroup, newToolGroupId, accepted)
    IN  /\ toolGroups' = result.groups
        /\ last' = [NoCall EXCEPT
                      !.op = "clone",
                      !.args = [newToolGroupId |-> newToolGroupId, accepted |-> accepted],
                      !.raised = result.raised,
                      !.result = result.returned,
                      !.events = result.events]
        /\ UNCHANGED <<measurementAdapterByToolType,
                       measurementAdapterByTrackingIdentifier, inputs, tools,
                       renderingEngines>>

\* a page with one tool group and no rendering engine
InitToolGroup ==
    /\ measurementAdapterByToolType = << >>
    /\ measurementAdapterByTrackingIdentifier = EmptyIdentifierMap
    /\ dataset = EmptyDataset
    /\ toolState = << >>
    /\ toolGroups = <<NewToolGroup("toolGroup1")>>
    /\ tools = RegisteredToolNames
    /\ renderingEngines = << >>
    /\ last = NoCall

\* the names handed to addTool
AddToolNames == RegisteredToolNames \cup {UnregisteredToolName} \cup MissingToolNames

\* the binding lists handed to setToolActive in the mode specification
ActivationBindings == {<< >>, <<PrimaryBinding>>}

AddTool == \E toolName \in AddToolNames : addToolCall(toolName)

SetToolActive ==
    \E toolName \in RegisteredToolNames, bindings \in ActivationBindings :
        setToolActiveCall(toolName, bindings)

SetToolDisabled == \E toolName \in RegisteredToolNames : setToolDisabledCall(toolName)

SetActivePrimaryTool ==
    \E toolName \in RegisteredToolNames : setActivePrimaryToolCall(toolName)

NextToolGroup ==
    \/ AddTool
    \/ SetToolActive
    \/ SetToolDisabled
    \/ SetActivePrimaryTool

SpecToolGroup == InitToolGroup /\ [][NextToolGroup]_vars

\* one tool and every kind of binding list and removeAllBindings option
BindingLists ==
    {<< >>, <<PrimaryBinding>>, <<SecondaryBinding>>, <<ShiftPrimaryBinding>>,
     <<TouchBinding>>, <<EmptyBinding>>, <<PrimaryBinding, PrimaryBinding>>,
     <<SecondaryBinding, PrimaryBinding>>}

RemoveAllBindingsOptions ==
    {RemoveAllBindings("omitted", << >>), RemoveAllBindings("true", << >>),
     RemoveAllBindings("false", << >>), RemoveAllBindings("array", << >>),
     RemoveAllBindings("array", <<SecondaryBinding>>),
     RemoveAllBindings("array", <<ShiftPrimaryBinding, TouchBinding>>)}

AddPan == addToolCall("Pan")

SetPanActive == \E bindings \in BindingLists : setToolActiveCall("Pan", bindings)

SetPanPassive ==
    \E removeAllBindings \in RemoveAllBindingsOptions :
        setToolPassiveCall("Pan", removeAllBindings)

SetPanEnabled == setToolEnabledCall("Pan")

NextBindings ==
    \/ AddPan
    \/ SetPanActive
    \/ SetPanPassive
    \/ SetPanEnabled

SpecBindings == InitToolGroup /\ [][NextBindings]_vars

\* cloning a group whose tools are added and activated
ToolGroupIds == {"toolGroup1", "toolGroup2"}

AddRegisteredTool == \E toolName \in RegisteredToolNames : addToolCall(toolName)

ActivateTool ==
    \E toolName \in RegisteredToolNames,
       bindings \in {<<PrimaryBinding>>, <<SecondaryBinding>>} :
        setToolActiveCall(toolName, bindings)

Clone ==
    \E newToolGroupId \in ToolGroupIds, accepted \in SUBSET RegisteredToolNames :
        cloneCall(newToolGroupId, accepted)

NextClone ==
    \/ AddRegisteredTool
    \/ ActivateTool
    \/ Clone

SpecClone == InitToolGroup /\ [][NextClone]_vars

\* every mode operation on a group to which Pan may be added and Zoom never is
ToolModes == {"Active", "Passive", "Enabled", "Disabled"}

SetToolPassive ==
    \E toolName \in RegisteredToolNames :
        setToolPassiveCall(toolName, RemoveAllBindings("omitted", << >>))

SetToolEnabled == \E toolName \in RegisteredToolNames : setToolEnabledCall(toolName)

SetToolMode ==
    \E toolName \in RegisteredToolNames, mode \in ToolModes \cup {NoMode},
       options \in {DefaultOptions, NullOptions} :
        setToolModeCall(toolName, mode, options)

NextModes ==
    \/ AddPan
    \/ ActivateTool
    \/ SetToolPassive
    \/ SetToolEnabled
    \/ SetToolDisabled
    \/ SetToolMode
    \/ SetActivePrimaryTool

SpecModes == InitToolGroup /\ [][NextModes]_vars

\* viewports added to a group on pages with zero, one or two rendering engines
RenderingEngineIds == {"engine1", "engine2"}
ViewportIds == {"viewport1", "viewport2"}

RenderingEngine(id, viewports) == [id |-> id, viewports |-> viewports]

RenderingEngineLists ==
    {<< >>}
    \cup {<<RenderingEngine(id, viewports)>> :
             id \in RenderingEngineIds, viewports \in SUBSET ViewportIds}
    \cup {<<RenderingEngine("engine1", v1), RenderingEngine("engine2", v2)>> :
             v1 \in SUBSET ViewportIds, v2 \in SUBSET ViewportIds}

InitViewports ==
    /\ measurementAdapterByToolType = << >>
    /\ measurementAdapterByTrackingIdentifier = EmptyIdentifierMap
    /\ dataset = EmptyDataset
    /\ toolState = << >>
    /\ toolGroups = <<NewToolGroup("toolGroup1")>>
    /\ tools = RegisteredToolNames
    /\ renderingEngines \in RenderingEngineLists
    /\ last = NoCall

AddViewport ==
    \E viewportId \in ViewportIds \cup NotAString,
       renderingEngineId \in RenderingEngineIds \cup {"undefined", ""} :
        addViewportCall(viewportId, renderingEngineId)

RemoveViewports ==
    \E renderingEngineId \in RenderingEngineIds,
       viewportId \in ViewportIds \cup {"undefined"} :
        removeViewportsCall(renderingEngineId, viewportId)

NextViewports ==
    \/ AddViewport
    \/ RemoveViewports
    \/ AddPan
    \/ SetPanEnabled

SpecViewports == InitViewports /\ [][NextViewports]_vars

\* tools added under their own name and as subclasses of a registered tool
AddToolInstance ==
    \E toolName \in {"Pan"} \cup DerivedToolNames,
       parentClassName \in {"Pan", UnregisteredToolName} :
        addToolInstanceCall(toolName, parentClassName)

EnableTool == \E toolName \in ToolNames : setToolEnabledCall(toolName)

NextAddTool ==
    \/ AddTool
    \/ AddToolInstance
    \/ EnableTool

SpecAddTool == InitToolGroup /\ [][NextAddTool]_vars

----------------------------------------------------------------------------
(* Properties of the registry                                              *)

Range(seq) == {seq[i] : i \in 1..Len(seq)}

RegisteredAdapters == Range(MapValues(measurementAdapterByToolType))

\* C1: registerTool without a replace argument (or with replace = false) for a
\* tool kind that is already a key of the tool-kind map raises, and leaves
\* both registry maps as they were.
C1_DuplicateRejected ==
    [][(/\ last'.op = "registerTool"
        /\ last'.replace \in {"omitted", "false"}
        /\ MapHas(measurementAdapterByToolType, toolType(last'.adapter)))
       => (/\ last'.raised
           /\ measurementAdapterByToolType' = measurementAdapterByToolType
           /\ measurementAdapterByTrackingIdentifier'
                  = measurementAdapterByTrackingIdentifier)]_vars

\* a duplicate registration of another adapter object was rejected
C1_Witness ==
    /\ last.op = "registerTool"
    /\ last.raised
    /\ last.replace = "omitted"
    /\ MapGet(measurementAdapterByToolType, toolType(last.adapter)) # last.adapter
    /\ MapHas(measurementAdapterByToolType, toolType(last.adapter))

\* C2: registerTool with a replace callback for a registered tool kind calls
\* the callback exactly once, with the previously registered adapter, while
\* the map still holds that adapter; on return the map holds the new adapter,
\* and a measurement group encoded for the tool kind is made by it.  Every
\* report is encoded by the adapters registered when it is generated.
C2_ReplaceCallback ==
    [][/\ (/\ last'.op = "registerTool"
           /\ last'.replace = "callback"
           /\ MapHas(measurementAdapterByToolType, toolType(last'.adapter)))
          => LET kind     == toolType(last'.adapter)
                 previous == MapGet(measurementAdapterByToolType, kind)
             IN  /\ ~last'.raised
                 /\ last'.callbackCalls
                        = << [original |-> previous, registered |-> previous] >>
                 /\ MapGet(measurementAdapterByToolType', kind) = last'.adapter
                 /\ getMeasurementGroup(measurementAdapterByToolType',
                                        [toolType |-> kind, data |-> 1],
                                        ReferencedSOPSequenceOf("image1")).adapter
                        = last'.adapter
       /\ last'.op = "generateReport"
          => \A k \in 1..Len(last'.report.allMeasurementGroups) :
                LET group == last'.report.allMeasurementGroups[k]
                IN  group.adapter
                        = MapGet(measurementAdapterByToolType, group.toolType)]_vars

\* a callback received an adapter other than the one now registered
C2_Witness ==
    /\ last.op = "registerTool"
    /\ last.replace = "callback"
    /\ Len(last.callbackCalls) = 1
    /\ last.callbackCalls[1].original # last.adapter
    /\ MapGet(measurementAdapterByToolType, toolType(last.adapter)) = last.adapter

\* C3: after every registerTool call that returns without error the
\* tracking-identifier map maps the adapter's trackingIdentifierTextValue to
\* that adapter.
C3_PrimaryIdentifierIndexed ==
    (last.op = "registerTool" /\ ~last.raised)
        => measurementAdapterByTrackingIdentifier[
               trackingIdentifierTextValue(last.adapter)] = last.adapter

\* a replacement: the identifier was indexed to the replaced adapter before
C3_Witness ==
    /\ last.op = "registerTool"
    /\ ~last.raised
    /\ last.replace = "true"
    /\ last.adapter = "LengthB"
    /\ "LengthA" \notin RegisteredAdapters
    /\ measurementAdapterByTrackingIdentifier["CS3D:Any"] = "LengthA"
    /\ measurementAdapterByTrackingIdentifier["CS3D:Length"] = "LengthB"

\* C4: registerTrackingIdentifier leaves the tool-kind map unchanged, maps
\* every listed identifier to the given adapter and leaves every other
\* identifier entry unchanged.
C4_ExtraIdentifiers ==
    [][last'.op = "registerTrackingIdentifier"
       => /\ measurementAdapterByToolType' = measurementAdapterByToolType
          /\ \A id \in TrackingIds :
                measurementAdapterByTrackingIdentifier'[id]
                    = IF id \in Range(last'.identifiers)
                      THEN last'.adapter
                      ELSE measurementAdapterByTrackingIdentifier[id]]_vars

\* two identifiers registered in one call answer to the same adapter
C4_Witness ==
    /\ last.op = "registerTrackingIdentifier"
    /\ Len(last.identifiers) = 2
    /\ \A id \in Range(last.identifiers) :
          measurementAdapterByTrackingIdentifier[id] = last.adapter
    /\ \E id \in TrackingIds \ Range(last.identifiers) :
          measurementAdapterByTrackingIdentifier[id] \notin {NoAdapter, last.adapter}

\* C5: getAdapterForTrackingIdentifier returns the stored adapter when the
\* identifier has an entry, calling no validator; otherwise the first
\* adapter in tool-kind-map order whose validator accepts the identifier;
\* and no adapter when there is neither.
C5_ResolveOrder ==
    [][last'.op = "getAdapterForTrackingIdentifier"
       => LET id        == last'.identifiers[1]
              stored    == measurementAdapterByTrackingIdentifier[id]
              values    == MapValues(measurementAdapterByToolType)
              accepting == {i \in 1..Len(values) :
                              isValidCornerstoneTrackingIdentifier(values[i], id)}
          IN  /\ stored # NoAdapter
                 => last'.result = stored /\ last'.probed = << >>
              /\ (stored = NoAdapter /\ accepting # {})
                 => \E i \in accepting :
                       /\ \A j \in accepting : i <= j
                       /\ last'.result = values[i]
              /\ (stored = NoAdapter /\ accepting = {})
                 => last'.result = NoAdapter]_vars

\* two registered adapters accept the identifier; the first registered won
C5_Witness ==
    /\ last.op = "getAdapterForTrackingIdentifier"
    /\ last.identifiers = <<"CS3D:Any">>
    /\ MapValues(measurementAdapterByToolType) = <<"ProbeA", "LengthA">>
    /\ last.probed = <<"ProbeA">>
    /\ last.result = "ProbeA"

\* C6: a resolve that directly follows a successful fallback resolve of the
\* same identifier returns the same adapter and calls no validator.
C6_FallbackCached ==
    (last.op = "getAdapterForTrackingIdentifier" /\ last.priorFallback # NoAdapter)
        => last.result = last.priorFallback /\ last.probed = << >>

\* the second of two resolves of an identifier only a validator accepts
C6_Witness ==
    /\ last.op = "getAdapterForTrackingIdentifier"
    /\ last.priorFallback # NoAdapter
    /\ trackingIdentifierTextValue(last.priorFallback) # last.identifiers[1]

\* C7: no call removes a key of the tracking-identifier map, and
\* getAdapterForTrackingIdentifier adds a key only for the identifier it
\* resolved through a successful fallback probe.
C7_IdentifierKeysGrow ==
    [][/\ IdentifierKeys(measurementAdapterByTrackingIdentifier)
              \subseteq IdentifierKeys(measurementAdapterByTrackingIdentifier')
       /\ last'.op = "getAdapterForTrackingIdentifier"
          => \/ IdentifierKeys(measurementAdapterByTrackingIdentifier')
                    = IdentifierKeys(measurementAdapterByTrackingIdentifier)
             \/ /\ last'.result # NoAdapter
                /\ last'.probed # << >>
                /\ isValidCornerstoneTrackingIdentifier(last'.result,
                                                        last'.identifiers[1])
                /\ IdentifierKeys(measurementAdapterByTrackingIdentifier')
                       = IdentifierKeys(measurementAdapterByTrackingIdentifier)
                             \cup {last'.identifiers[1]}]_vars

\* a resolve probed every registered adapter, found none and added no key
C7_Witness ==
    /\ last.op = "getAdapterForTrackingIdentifier"
    /\ last.result = NoAdapter
    /\ Len(last.probed) = 2
    /\ last.identifiers[1] \notin IdentifierKeys(measurementAdapterByTrackingIdentifier)
    /\ IdentifierKeys(measurementAdapterByTrackingIdentifier) # {}

----------------------------------------------------------------------------
(* Properties of generateToolState                                         *)

\* the groups that have a record in the returned map
DecodedGroups(measurementData) ==
    UNION {{measurementData[t][k].group : k \in 1..Len(measurementData[t])} :
              t \in ToolTypes}

RECURSIVE TotalRecordsOver(_, _)
TotalRecordsOver(measurementData, kinds) ==
    IF kinds = {} THEN 0
    ELSE LET t == CHOOSE x \in kinds : TRUE
         IN  Len(measurementData[t]) + TotalRecordsOver(measurementData, kinds \ {t})

TotalRecords(measurementData) == TotalRecordsOver(measurementData, ToolTypes)

\* C8: generateToolState on a document whose template identifier is not
\* "1500" raises before any group is examined: no validator is called, no
\* group is decoded or logged, nothing is returned, the registry is unchanged.
C8_TemplateGuard ==
    [][(last'.op = "generateToolState" /\ dataset.TemplateIdentifier # "1500")
       => /\ last'.raised
          /\ last'.probed = << >>
          /\ last'.warned = << >>
          /\ last'.measurementData = EmptyMeasurementData
          /\ measurementAdapterByToolType' = measurementAdapterByToolType
          /\ measurementAdapterByTrackingIdentifier'
                 = measurementAdapterByTrackingIdentifier]_vars

\* a template-1400 document was rejected although its first group names an
\* identifier a registered adapter would have accepted and cached
C8_Witness ==
    /\ last.op = "generateToolState"
    /\ last.raised
    /\ dataset.TemplateIdentifier = "1400"
    /\ Len(dataset.groups) = 2
    /\ dataset.groups[1] = PlainGroup("CS3D:Any")
    /\ "LengthA" \in RegisteredAdapters
    /\ measurementAdapterByTrackingIdentifier["CS3D:Any"] = NoAdapter

\* C9: for a template-1500 document whose "Imaging Measurements" item holds
\* the groups in its ContentSequence generateToolState does not raise when a
\* group has no resolvable adapter or its extraction raises; the returned map
\* holds exactly one record for every group whose adapter resolved and whose
\* extraction completed, and none for any other group.
C9_GroupFailureIsolated ==
    [][(/\ last'.op = "generateToolState"
        /\ dataset.TemplateIdentifier = "1500"
        /\ dataset.imagingMeasurements
        /\ dataset.contentSequence)
       => LET decodable ==
                {i \in 1..Len(dataset.groups) :
                    LET g == dataset.groups[i]
                    IN  /\ g.trackingIdentifier # NoTrackingIdentifier
                        /\ \/ g.hookAdapter # NoAdapter
                           \/ measurementAdapterByTrackingIdentifier[
                                  g.trackingIdentifier] # NoAdapter
                           \/ \E a \in RegisteredAdapters :
                                 isValidCornerstoneTrackingIdentifier(
                                     a, g.trackingIdentifier)
                        /\ g.coordinates # "none"}
          IN  /\ ~last'.raised
              /\ DecodedGroups(last'.measurementData) = decodable
              /\ TotalRecords(last'.measurementData) = Cardinality(decodable)]_vars

\* the extraction of the first group raised and the second group was decoded
C9_Witness ==
    /\ last.op = "generateToolState"
    /\ ~last.raised
    /\ Len(dataset.groups) = 2
    /\ dataset.groups[1].coordinates = "none"
    /\ dataset.groups[1].hookAdapter = NoAdapter
    /\ measurementAdapterByTrackingIdentifier[dataset.groups[1].trackingIdentifier]
           # NoAdapter
    /\ last.warned = <<1>>
    /\ DecodedGroups(last.measurementData) = {2}

\* C10: a group for which hooks.getToolClass returns an adapter is decoded by
\* that adapter and recorded under its toolType only; the registry is asked
\* (validators probed, identifier cached) only for groups without a hook
\* answer, and those groups are recorded with the adapter the registry holds
\* for their identifier.
C10_HookFirst ==
    [][(last'.op = "generateToolState" /\ ~last'.raised)
       => /\ \A i \in 1..Len(dataset.groups) :
                LET g == dataset.groups[i]
                IN  (/\ g.trackingIdentifier # NoTrackingIdentifier
                     /\ g.coordinates # "none"
                     /\ g.hookAdapter # NoAdapter)
                    => /\ [group |-> i, adapter |-> g.hookAdapter]
                              \in Range(last'.measurementData[toolType(g.hookAdapter)])
                       /\ \A t \in ToolTypes \ {toolType(g.hookAdapter)} :
                             \A r \in Range(last'.measurementData[t]) : r.group # i
          /\ \A id \in TrackingIds :
                measurementAdapterByTrackingIdentifier'[id]
                        # measurementAdapterByTrackingIdentifier[id]
                    => \E i \in 1..Len(dataset.groups) :
                          /\ dataset.groups[i].trackingIdentifier = id
                          /\ dataset.groups[i].hookAdapter = NoAdapter
          /\ (\A i \in 1..Len(dataset.groups) :
                 dataset.groups[i].trackingIdentifier # NoTrackingIdentifier
                     => dataset.groups[i].hookAdapter # NoAdapter)
             => last'.probed = << >>
          /\ \A t \in ToolTypes : \A r \in Range(last'.measurementData[t]) :
                dataset.groups[r.group].hookAdapter = NoAdapter
                    => r.adapter = measurementAdapterByTrackingIdentifier'[
                                       dataset.groups[r.group].trackingIdentifier]]_vars

\* the hook's adapter, of another tool kind and not even registered, decoded
\* a group whose identifier the registry maps to the Length adapter
C10_Witness ==
    /\ last.op = "generateToolState"
    /\ Len(dataset.groups) = 1
    /\ dataset.groups[1].trackingIdentifier = "CS3D:Length"
    /\ dataset.groups[1].hookAdapter = "ProbeA"
    /\ measurementAdapterByTrackingIdentifier["CS3D:Length"] = "LengthA"
    /\ ~MapHas(measurementAdapterByToolType, "Probe")
    /\ last.measurementData["Probe"] = <<[group |-> 1, adapter |-> "ProbeA"]>>
    /\ last.measurementData["Length"] = << >>

----------------------------------------------------------------------------
(* Properties of the helpers                                               *)

\* C11: codeValueMatch is truthy exactly when the node has a
\* ConceptNameCodeSequence whose designator and value both equal those of
\* the primary code, or of the legacy code when one is supplied; without a
\* ConceptNameCodeSequence it returns a falsy value and does not raise.  An
\* SRT G-C0E3 node matches the finding-site query with its legacy code and
\* does not match the finding query.
C11_CodeValueMatch ==
    /\ last.op = "codeValueMatch" =>
         LET group == last.args.group
             code == last.args.code
             oldCode == last.args.oldCode
         IN  /\ ~last.raised
             /\ Truthy(last.value) <=>
                  /\ group.ConceptNameCodeSequence # << >>
                  /\ \/ group.ConceptNameCodeSequence[1] = code
                     \/ /\ oldCode # << >>
                        /\ group.ConceptNameCodeSequence[1] = oldCode[1]
    /\ Truthy(codeValueMatch([ConceptNameCodeSequence |-> <<FINDING_SITE_OLD>>],
                             FINDING_SITE, <<FINDING_SITE_OLD>>))
    /\ ~Truthy(codeValueMatch([ConceptNameCodeSequence |-> <<FINDING_SITE_OLD>>],
                              FINDING, << >>))

C11_Witness ==
    /\ last.op = "codeValueMatch"
    /\ last.args.group = [ConceptNameCodeSequence |-> <<FINDING_SITE_OLD>>]
    /\ last.args.code = FINDING_SITE
    /\ last.args.oldCode = <<FINDING_SITE_OLD>>
    /\ last.value = "true"

\* C12: the label is the CodeMeaning of the first finding site whose
\* CodeValue is the free-text sentinel whenever there is such a site,
\* whatever the finding is; it is the finding's CodeMeaning only when no
\* site carries the sentinel and the finding's CodeValue is the sentinel.
C12_LabelPrecedence ==
    last.op = "getCornerstoneLabelFromDefaultState" =>
        LET sites == last.args.defaultState.findingSites
            finding == last.args.defaultState.finding
            sentinelSites == {i \in 1..Len(sites) :
                                 sites[i].CodeValue = CORNERSTONEFREETEXT}
        IN  /\ sentinelSites # {} =>
                \E i \in sentinelSites :
                    /\ \A j \in sentinelSites : i <= j
                    /\ last.value = sites[i].CodeMeaning
            /\ sentinelSites = {} =>
                IF finding # << >> /\ finding[1].CodeValue = CORNERSTONEFREETEXT
                THEN last.value = finding[1].CodeMeaning
                ELSE last.value = NoLabel

C12_Witness ==
    /\ last.op = "getCornerstoneLabelFromDefaultState"
    /\ Len(last.args.defaultState.findingSites) = 2
    /\ last.args.defaultState.findingSites[1].CodeValue # CORNERSTONEFREETEXT
    /\ last.args.defaultState.findingSites[2] =
           [CodeValue |-> CORNERSTONEFREETEXT, CodeMeaning |-> "meaning B"]
    /\ last.args.defaultState.finding =
           <<[CodeValue |-> CORNERSTONEFREETEXT, CodeMeaning |-> "meaning A"]>>
    /\ last.value = "meaning B"

----------------------------------------------------------------------------
(* Properties of the geometry resolver                                     *)

\* the groups of the parsed document whose adapter the registry resolves
\* and whose coordinates the resolver accepts
GeometryResolved ==
    {i \in 1..Len(dataset.groups) :
        \E a \in RegisteredAdapters :
            isValidCornerstoneTrackingIdentifier(a, dataset.groups[i].trackingIdentifier)}

GeometryDecodable ==
    {i \in GeometryResolved :
        dataset.groups[i].coordinates
            \in {"SCOORD3D", "SCOORD", "SCOORD3D, SCOORD", "TEXT, SCOORD3D"}}

ChildTypes(NUMGroup) ==
    {NUMGroup.ContentSequence[i].ValueType : i \in 1..Len(NUMGroup.ContentSequence)}

\* C13: getSpatialCoordinatesState on a NUM node with neither a SCOORD nor a
\* SCOORD3D child raises and returns no state; inside generateToolState the
\* failure costs exactly that group: it is logged, not recorded, the call
\* does not raise and every other decodable group is recorded.
C13_NoCoordinatesRaises ==
    /\ (/\ last.op = "getSpatialCoordinatesState"
        /\ ChildTypes(last.args.NUMGroup) \cap {"SCOORD", "SCOORD3D"} = {})
       => /\ last.raised
          /\ last.coordinates = NoCoordinates
    /\ (last.op = "generateToolState" /\ dataset \in GeometryDatasets)
       => /\ ~last.raised
          /\ DecodedGroups(last.measurementData) = GeometryDecodable
          /\ \A i \in 1..Len(dataset.groups) :
                (/\ dataset.groups[i].coordinates = "none"
                 /\ i \in GeometryResolved)
                => /\ i \in Range(last.warned)
                   /\ i \notin DecodedGroups(last.measurementData)

\* the first group has no coordinates and is logged, the second is decoded
C13_Witness ==
    /\ last.op = "generateToolState"
    /\ Len(dataset.groups) = 2
    /\ dataset.groups[1].coordinates = "none"
    /\ dataset.groups[2].coordinates = "SCOORD"
    /\ last.warned = <<1>>
    /\ DecodedGroups(last.measurementData) = {2}

\* C14: for a NUM node with a SCOORD3D child and no SCOORD child the
\* resolver returns an annotation whose FrameOfReferenceUID is the child's
\* ReferencedFrameOfReferenceUID, with empty label and neither
\* referencedImageId nor sopInstanceUid, and it neither asks the metadata
\* provider nor looks into the SOP-instance map.
C14_VolumetricAnchor ==
    (/\ last.op = "getSpatialCoordinatesState"
     /\ "SCOORD3D" \in ChildTypes(last.args.NUMGroup)
     /\ "SCOORD" \notin ChildTypes(last.args.NUMGroup))
    => LET children == last.args.NUMGroup.ContentSequence
           first == CHOOSE i \in 1..Len(children) :
                       /\ children[i].ValueType = "SCOORD3D"
                       /\ \A j \in 1..(i - 1) : children[j].ValueType # "SCOORD3D"
       IN  /\ ~last.raised
           /\ last.coordinates.state.FrameOfReferenceUID =
                  children[first].ReferencedFrameOfReferenceUID[1]
           /\ last.coordinates.state.label = ""
           /\ last.coordinates.state.referencedImageId = << >>
           /\ last.coordinates.state.sopInstanceUid = << >>
           /\ last.coordinates.metadataCalls = << >>
           /\ last.coordinates.lookups = << >>

C14_Witness ==
    /\ last.op = "getSpatialCoordinatesState"
    /\ last.args.NUMGroup.ContentSequence = <<TEXT, SCOORD3D("frame of reference 9")>>
    /\ last.coordinates.state.FrameOfReferenceUID = "frame of reference 9"
    /\ last.coordinates.state.toolName = "Probe"

\* C15: a NUM node with a SCOORD child is image-anchored even when it also
\* has a SCOORD3D child: referencedImageId is the entry of the SOP-instance
\* map for the SCOORD's ReferencedSOPInstanceUID and FrameOfReferenceUID is
\* the one of the image-plane module the provider returns for that image;
\* when the provider returns no module the extraction raises, and inside
\* generateToolState only that group is lost.
C15_ImageAnchor ==
    /\ (/\ last.op = "getSpatialCoordinatesState"
        /\ "SCOORD" \in ChildTypes(last.args.NUMGroup))
       => LET children == last.args.NUMGroup.ContentSequence
              first == CHOOSE i \in 1..Len(children) :
                          /\ children[i].ValueType = "SCOORD"
                          /\ \A j \in 1..(i - 1) : children[j].ValueType # "SCOORD"
              uid == children[first].ReferencedSOPInstanceUID[1]
              module == imagePlaneModule(sopInstanceUIDToImageIdMap(uid))
          IN  /\ last.raised <=> module = << >>
              /\ last.coordinates.lookups = <<uid>>
              /\ last.coordinates.metadataCalls = <<sopInstanceUIDToImageIdMap(uid)>>
              /\ ~last.raised =>
                   /\ last.coordinates.state.referencedImageId =
                          sopInstanceUIDToImageIdMap(uid)
                   /\ last.coordinates.state.sopInstanceUid = <<uid>>
                   /\ last.coordinates.state.FrameOfReferenceUID =
                          module[1].frameOfReferenceUID
    /\ (last.op = "generateToolState" /\ dataset \in GeometryDatasets)
       => /\ ~last.raised
          /\ DecodedGroups(last.measurementData) = GeometryDecodable
          /\ \A i \in 1..Len(dataset.groups) :
                (/\ dataset.groups[i].coordinates \in {"SCOORD unplaced", "SCOORD unknown"}
                 /\ i \in GeometryResolved)
                => /\ i \in Range(last.warned)
                   /\ i \notin DecodedGroups(last.measurementData)

\* both children are present, the volumetric one first, and the annotation
\* is anchored to the image of the SCOORD child
C15_Witness ==
    /\ last.op = "getSpatialCoordinatesState"
    /\ last.args.NUMGroup.ContentSequence =
           <<SCOORD3D("frame of reference 9"), SCOORD(<<"sop", "image3">>)>>
    /\ last.coordinates.state.referencedImageId = <<"image3">>
    /\ last.coordinates.state.FrameOfReferenceUID = "frame of reference 2"

----------------------------------------------------------------------------
(* Properties of the report assembler                                      *)

\* C16: the reference generateReferencedSOPSequence returns carries the
\* provider's frameNumber only when the instance reports more than one frame
\* or its SOP class is a multi-frame class; for a single-frame image
\* ReferencedFrameNumber stays undefined whatever the provider's frameNumber.
C16_FrameNumberOnlyMultiframe ==
    (last.op = "generateReport" /\ ~last.raised)
    => /\ Len(last.report.referenced) = Len(toolState)
       /\ \A i \in 1..Len(last.report.referenced) :
             LET imageId == last.report.referenced[i].imageId
                 reference == last.report.referenced[i].ReferencedSOPSequence
             IN  /\ reference.ReferencedSOPInstanceUID = sopInstanceUID(imageId)
                 /\ IF NumberOfFrames(imageId) > 1 \/ isMultiframeSOPClassUID(imageId)
                    THEN reference.ReferencedFrameNumber = frameNumber(imageId)
                    ELSE reference.ReferencedFrameNumber = NoFrameNumber
       /\ \A k \in 1..Len(last.report.allMeasurementGroups) :
             \E i \in 1..Len(last.report.referenced) :
                last.report.allMeasurementGroups[k].ReferencedSOPSequence
                    = last.report.referenced[i].ReferencedSOPSequence

\* a single-frame image and an image that is multi-frame by SOP class only
C16_Witness ==
    /\ last.op = "generateReport"
    /\ Len(last.report.referenced) = 2
    /\ last.report.referenced[1].imageId = "image1"
    /\ last.report.referenced[1].ReferencedSOPSequence.ReferencedFrameNumber = NoFrameNumber
    /\ last.report.referenced[2].imageId = "image2"
    /\ last.report.referenced[2].ReferencedSOPSequence.ReferencedFrameNumber = 1
    /\ Len(last.report.allMeasurementGroups) = 2

SeriesOf(derivationSourceDatasets) ==
    {derivationSourceDatasets[k].SeriesInstanceUID :
        k \in 1..Len(derivationSourceDatasets)}

\* C17: during generateReport, after each source image the derivation list
\* has no two entries with the same SeriesInstanceUID and exactly one entry
\* for every series of the images processed so far; an entry, once created,
\* is not changed by later images of the same series.
C17_OneDerivationEntryPerSeries ==
    (last.op = "generateReport" /\ ~last.raised)
    => /\ Len(last.report.derivationTrace) = Len(toolState)
       /\ \A i \in 1..Len(last.report.derivationTrace) :
             LET list == last.report.derivationTrace[i]
                 before == IF i = 1 THEN << >> ELSE last.report.derivationTrace[i - 1]
             IN  /\ \A j, k \in 1..Len(list) :
                       list[j].SeriesInstanceUID = list[k].SeriesInstanceUID => j = k
                 /\ SeriesOf(list) =
                       {SeriesInstanceUID(last.report.referenced[j].imageId) : j \in 1..i}
                 /\ Len(before) <= Len(list)
                 /\ SubSeq(list, 1, Len(before)) = before
       /\ Len(toolState) > 0 =>
             last.report.derivationSourceDatasets
                 = last.report.derivationTrace[Len(toolState)]

\* two images of one series: the entry the first created is kept
C17_Witness ==
    /\ last.op = "generateReport"
    /\ Len(toolState) = 2
    /\ toolState[1].imageId = "image2"
    /\ toolState[2].imageId = "image1"
    /\ last.report.derivationSourceDatasets =
           <<[SeriesInstanceUID |-> "series1", instance |-> "image2"]>>

\* C18: the report generateReport returns has the 3D SOP class exactly when
\* some key of the tool state is NO_IMAGE_ID, wherever that key stands in
\* the iteration order.
C18_Is3DSR ==
    (last.op = "generateReport" /\ ~last.raised)
    => /\ last.report.is3DSR <=>
             \E i \in 1..Len(toolState) : toolState[i].imageId = NO_IMAGE_ID
       /\ SOPClassUID(last.report) = "Comprehensive3DSR" <=>
             \E i \in 1..Len(toolState) : toolState[i].imageId = NO_IMAGE_ID

\* the volumetric key comes first and an image key after it
C18_Witness ==
    /\ last.op = "generateReport"
    /\ ~last.raised
    /\ Len(toolState) = 2
    /\ toolState[1].imageId = NO_IMAGE_ID
    /\ toolState[2].imageId = "image3"
    /\ SOPClassUID(last.report) = "Comprehensive3DSR"

----------------------------------------------------------------------------
(* Round trip                                                               *)

\* C19: when every tool kind of the tool state is registered, parsing the
\* document of the report generateReport returned yields, for every tool
\* kind, the annotations of that kind of the tool state, in order.
C19_RoundTrip ==
    (/\ last.op = "generateReport"
     /\ ~last.raised
     /\ \A i \in 1..Len(toolState) : \A k \in 1..Len(toolState[i].toolData) :
           MapHas(measurementAdapterByToolType, toolState[i].toolData[k].toolType))
    => LET document == DocumentOf(last.report)
           encoded == EncodedAnnotations(last.report.allMeasurementGroups, 1)
           parsed == ParseDataset(measurementAdapterByToolType,
                                  measurementAdapterByTrackingIdentifier,
                                  document).measurementData
       IN  \A t \in ToolTypes :
              LET OfToolType(annotation) == annotation.toolType = t
              IN  [i \in 1..Len(parsed[t]) |-> encoded[parsed[t][i].group]]
                      = SelectSeq(ToolStateAnnotations(toolState, 1), OfToolType)

----------------------------------------------------------------------------
(* Parses sharing the registry                                              *)

\* the documents a second parse works on
OtherGroupLists ==
    {<<PlainGroup("CS3D:Length"), PlainGroup("CS3D:Any")>>,
     <<PlainGroup("CS3D:Any"), PlainGroup("Other")>>}

\* the orders in which the groups of two documents can be taken up
Schedules(n1, n2) ==
    {s \in [1..(n1 + n2) -> {1, 2}] : Cardinality({k \in 1..(n1 + n2) : s[k] = 1}) = n1}

ParseStart(byId) ==
    [byId |-> byId, measurementData |-> EmptyMeasurementData,
     probed |-> << >>, warned |-> << >>]

\* two parses taking turns group by group over one identifier map
RECURSIVE Interleaved(_, _, _, _, _, _)
Interleaved(byType, run, groups1, groups2, schedule, k) ==
    IF k > Len(schedule) THEN run
    ELSE IF schedule[k] = 1
    THEN LET after == DecodeGroup(byType, [run.first EXCEPT !.byId = run.byId],
                                  groups1, run.i)
         IN  Interleaved(byType,
                         [run EXCEPT !.byId = after.byId, !.first = after, !.i = @ + 1],
                         groups1, groups2, schedule, k + 1)
    ELSE LET after == DecodeGroup(byType, [run.second EXCEPT !.byId = run.byId],
                                  groups2, run.j)
         IN  Interleaved(byType,
                         [run EXCEPT !.byId = after.byId, !.second = after, !.j = @ + 1],
                         groups1, groups2, schedule, k + 1)

\* C20: generateReport leaves both registry maps unchanged; generateToolState
\* leaves the tool-kind map unchanged and neither changes nor removes an
\* identifier entry that exists: all it does to the registry is to add an
\* entry for the identifier of one of its groups that had none and that a
\* registered adapter's validator accepts.  Hence two parses taking turns
\* group by group return what they return when run one after the other.
C20_ParsesShareRegistry ==
    [][/\ last'.op = "generateReport"
          => /\ measurementAdapterByToolType' = measurementAdapterByToolType
             /\ measurementAdapterByTrackingIdentifier'
                    = measurementAdapterByTrackingIdentifier
       /\ last'.op = "generateToolState"
          => /\ measurementAdapterByToolType' = measurementAdapterByToolType
             /\ \A id \in TrackingIds :
                   measurementAdapterByTrackingIdentifier'[id]
                           # measurementAdapterByTrackingIdentifier[id]
                   => /\ measurementAdapterByTrackingIdentifier[id] = NoAdapter
                      /\ \E i \in 1..Len(dataset.groups) :
                            dataset.groups[i].trackingIdentifier = id
                      /\ measurementAdapterByTrackingIdentifier'[id] \in RegisteredAdapters
                      /\ isValidCornerstoneTrackingIdentifier(
                             measurementAdapterByTrackingIdentifier'[id], id)
             /\ \A groups2 \in OtherGroupLists :
                   LET alone == ParseDataset(measurementAdapterByToolType,
                                    measurementAdapterByTrackingIdentifier, dataset)
                       then == DecodeGroups(measurementAdapterByToolType,
                                    ParseStart(alone.byId), groups2, 1)
                   IN  /\ last'.measurementData = alone.measurementData
                       /\ \A schedule \in Schedules(Len(dataset.groups), Len(groups2)) :
                             LET run == Interleaved(measurementAdapterByToolType,
                                           [byId |-> measurementAdapterByTrackingIdentifier,
                                            first |-> ParseStart(measurementAdapterByTrackingIdentifier),
                                            second |-> ParseStart(measurementAdapterByTrackingIdentifier),
                                            i |-> 1, j |-> 1],
                                           dataset.groups, groups2, schedule, 1)
                             IN  /\ run.first.measurementData = alone.measurementData
                                 /\ run.second.measurementData = then.measurementData
                                 /\ run.byId = then.byId]_vars

\* a parse added the cache entry of an identifier only validators accept
\* while the entry of the first group's identifier was already there
C20_Witness ==
    /\ last.op = "generateToolState"
    /\ Len(dataset.groups) = 2
    /\ dataset.groups[1] = [PlainGroup("CS3D:Length") EXCEPT !.coordinates = "none"]
    /\ dataset.groups[2] = PlainGroup("CS3D:Any")
    /\ last.probed = <<"LengthA">>
    /\ last.warned = <<1>>
    /\ measurementAdapterByTrackingIdentifier["CS3D:Any"] = "LengthA"
    /\ measurementAdapterByTrackingIdentifier["CS3D:Length"] = "LengthA"

----------------------------------------------------------------------------
(* Label, derivation list, cache and parse failures                         *)

\* C26: for a measurement group in which neither the finding nor any finding
\* site carries the free-text sentinel, processSpatialCoordinatesGroup leaves
\* annotation.metadata.label at its initial value, the empty string.
C26_LabelKeptWithoutSentinel ==
    (/\ last.op = "processSpatialCoordinatesGroup"
     /\ ~last.raised
     /\ \A i \in 1..Len(last.args.findingSites) :
           last.args.findingSites[i].CodeValue # CORNERSTONEFREETEXT
     /\ \/ last.args.finding = << >>
        \/ last.args.finding[1].CodeValue # CORNERSTONEFREETEXT)
    => last.defaultState.label = ""

\* C27: the derivation-source list of a report has an entry only for the
\* series of images that contribute a measurement group to the report.
C27_DerivationEntryNeedsMeasurement ==
    (last.op = "generateReport" /\ ~last.raised)
    => \A k \in 1..Len(last.report.derivationSourceDatasets) :
          \E g \in 1..Len(last.report.allMeasurementGroups) :
             SeriesInstanceUID(last.report.allMeasurementGroups[g]
                                   .ReferencedSOPSequence.ReferencedSOPInstanceUID[2])
                = last.report.derivationSourceDatasets[k].SeriesInstanceUID

\* C28: after registerTool and getAdapterForTrackingIdentifier calls only,
\* every adapter getAdapterForTrackingIdentifier returns is the adapter the
\* tool-kind map currently holds under its toolType.
C28_ResolveReturnsCurrentAdapter ==
    (/\ last.op = "getAdapterForTrackingIdentifier"
     /\ last.result # NoAdapter)
    => MapGet(measurementAdapterByToolType, toolType(last.result)) = last.result

\* C29: generateToolState does not raise for a template-1500 document, with
\* or without an "Imaging Measurements" section, whatever its groups are.
C29_OnlyTemplateRaises ==
    (last.op = "generateToolState" /\ dataset.TemplateIdentifier = "1500")
    => ~last.raised

----------------------------------------------------------------------------
(* Properties of the tool group                                             *)

\* bindings of the options stored for a tool, << >> when none are stored
BindingsOf(toolGroup, toolName) ==
    IF toolGroup.toolOptions[toolName] = << >> THEN << >>
    ELSE toolGroup.toolOptions[toolName][1].bindings

\* mode of the instance of an added tool
InstanceMode(toolGroup, toolName) ==
    toolGroup.toolInstances[InstanceIndex(toolGroup, toolName)].mode

\* C21: setToolPassive on an added tool removes the bindings equal to the
\* default primary binding (option omitted or false), all bindings (option
\* true), or the bindings equal to a listed one (option an array), keeps the
\* others in order, leaves the tool Active when a binding remains and
\* Passive otherwise, and emits TOOL_MODE_CHANGED with mode Passive.
C21_SetToolPassive ==
    [][(/\ last'.op = "setToolPassive"
        /\ ~last'.raised
        /\ hasTool(ThisToolGroup, last'.args.toolName))
       => LET toolName == last'.args.toolName
              option == last'.args.removeAllBindings
              Kept(binding) ==
                  CASE option.kind = "true" -> FALSE
                    [] option.kind = "array" ->
                           \A j \in 1..Len(option.bindings) : option.bindings[j] # binding
                    [] OTHER -> binding # PrimaryBinding
              remaining == SelectSeq(BindingsOf(ThisToolGroup, toolName), Kept)
              mode == IF remaining # << >> THEN "Active" ELSE "Passive"
          IN  /\ toolGroups'[1].toolOptions[toolName] =
                     <<[bindings |-> remaining, mode |-> mode]>>
              /\ InstanceMode(toolGroups'[1], toolName) = mode
              /\ last'.events = <<ToolModeChanged(toolName, "Passive")>>]_vars

\* a passive call without option that left the tool Active on its other bindings
C21_Witness ==
    /\ last.op = "setToolPassive"
    /\ last.args.removeAllBindings.kind = "omitted"
    /\ ThisToolGroup.toolOptions["Pan"] =
           <<[bindings |-> <<SecondaryBinding, ShiftPrimaryBinding>>, mode |-> "Active"]>>
    /\ last.events = <<ToolModeChanged("Pan", "Passive")>>

\* C22: addViewport without renderingEngineId throws whenever more than one
\* rendering engine exists, uses the single engine when exactly one exists,
\* throws when none exists or the viewportId is not a string, and a throw
\* leaves viewportsInfo unchanged and triggers no event.
C22_AddViewport ==
    [][(last'.op = "addViewport" /\ last'.args.renderingEngineId = "undefined")
       => LET viewportId == last'.args.viewportId
          IN  /\ Len(renderingEngines) > 1 => last'.raised
              /\ (Len(renderingEngines) = 1 /\ viewportId \notin NotAString)
                 => /\ ~last'.raised
                    /\ last'.events =
                           <<ViewportAdded(viewportId, renderingEngines[1].id)>>
              /\ (Len(renderingEngines) = 0 \/ viewportId \in NotAString) => last'.raised
              /\ last'.raised
                 => /\ toolGroups'[1].viewportsInfo = ThisToolGroup.viewportsInfo
                    /\ last'.events = << >>]_vars

\* C23: setActivePrimaryTool(B) with A the current active primary tool and
\* both added leaves A (if not B) Disabled without bindings, B Active with
\* the primary binding and the current primary tool, and the event
\* TOOL_MODE_CHANGED(A, Disabled) precedes TOOL_ACTIVATED(B).
C23_SetActivePrimaryTool ==
    [][(/\ last'.op = "setActivePrimaryTool"
        /\ ThisToolGroup.currentActivePrimaryToolName # NoToolName
        /\ hasTool(ThisToolGroup, ThisToolGroup.currentActivePrimaryToolName)
        /\ hasTool(ThisToolGroup, last'.args.toolName))
       => LET A == ThisToolGroup.currentActivePrimaryToolName
              B == last'.args.toolName
              after == toolGroups'[1]
          IN  /\ A # B
                 => /\ after.toolOptions[A] = <<[bindings |-> << >>, mode |-> "Disabled"]>>
                    /\ InstanceMode(after, A) = "Disabled"
              /\ after.toolOptions[B] # << >>
              /\ after.toolOptions[B][1].mode = "Active"
              /\ InstanceMode(after, B) = "Active"
              /\ \E i \in 1..Len(BindingsOf(after, B)) :
                    BindingsOf(after, B)[i] = PrimaryBinding
              /\ after.currentActivePrimaryToolName = B
              /\ \E i, j \in 1..Len(last'.events) :
                    /\ i < j
                    /\ last'.events[i] = ToolModeChanged(A, "Disabled")
                    /\ last'.events[j] = ToolActivated(B)]_vars

\* Pan was the primary tool and has been disabled in favour of Zoom
C23_Witness ==
    /\ last.op = "setActivePrimaryTool"
    /\ last.args.toolName = "Zoom"
    /\ last.events = <<ToolModeChanged("Pan", "Disabled"), ToolActivated("Zoom"),
                       ToolModeChanged("Zoom", "Active")>>
    /\ ThisToolGroup.currentActivePrimaryToolName = "Zoom"
    /\ ThisToolGroup.toolOptions["Pan"] = <<[bindings |-> << >>, mode |-> "Disabled"]>>

\* C24: a setToolActive call with a primary binding on an added tool leaves
\* as previous primary tool name the current name of before the call (null
\* if there was none); a call without a primary binding changes neither name.
C24_PrevActivePrimaryTool ==
    [][last'.op = "setToolActive"
       => LET toolName == last'.args.toolName
              after == toolGroups'[1]
          IN  IF /\ hasTool(ThisToolGroup, toolName)
                 /\ \E i \in 1..Len(last'.args.bindings) :
                       last'.args.bindings[i] = PrimaryBinding
              THEN /\ after.prevActivePrimaryToolName =
                          ThisToolGroup.currentActivePrimaryToolName
                   /\ after.currentActivePrimaryToolName = toolName
              ELSE /\ after.prevActivePrimaryToolName =
                          ThisToolGroup.prevActivePrimaryToolName
                   /\ after.currentActivePrimaryToolName =
                          ThisToolGroup.currentActivePrimaryToolName]_vars

\* C25: clone with an unused id completes without error and returns a new
\* group holding exactly the accepted source tools, each with the mode and
\* the bindings of the source; with a used id it returns that group and
\* changes nothing.
C25_Clone ==
    [][last'.op = "clone"
       => IF getToolGroup(toolGroups, last'.args.newToolGroupId) # 0
          THEN /\ toolGroups' = toolGroups
               /\ last'.result = getToolGroup(toolGroups, last'.args.newToolGroupId)
               /\ ~last'.raised
          ELSE /\ ~last'.raised
               /\ last'.result = Len(toolGroups) + 1
               /\ Len(toolGroups') = Len(toolGroups) + 1
               /\ LET cloned == toolGroups'[Len(toolGroups) + 1]
                  IN  /\ cloned.id = last'.args.newToolGroupId
                      /\ \A toolName \in ToolNames :
                            hasTool(cloned, toolName)
                            <=> (/\ hasTool(ThisToolGroup, toolName)
                                 /\ toolName \in last'.args.accepted)
                      /\ \A toolName \in ToolNames :
                            hasTool(cloned, toolName)
                            => /\ InstanceMode(cloned, toolName) =
                                      InstanceMode(ThisToolGroup, toolName)
                               /\ cloned.toolOptions[toolName] =
                                      ThisToolGroup.toolOptions[toolName]]_vars

\* C30: addTool of a name the group already has (hasTool is true) warns and
\* keeps the existing instance, whether or not a mode has been set.
C30_AddToolKeepsInstance ==
    [][(last'.op = "addTool" /\ hasTool(ThisToolGroup, last'.args.toolName))
       => /\ toolGroups'[1].toolInstances = ThisToolGroup.toolInstances
          /\ last'.value = "warned"]_vars

\* the operations that set the mode of a tool
ModeOperations ==
    {"setToolActive", "setToolPassive", "setToolEnabled", "setToolDisabled",
     "setToolMode", "setActivePrimaryTool"}

\* C31: a mode operation naming a tool that is not added to the group leaves
\* the whole group unchanged (options, modes, bindings, restore options,
\* current and previous primary tool names) and triggers no event.
C31_NotAddedChangesNothing ==
    [][(/\ last'.op \in ModeOperations
        /\ ~hasTool(ThisToolGroup, last'.args.toolName))
       => /\ toolGroups'[1] = ThisToolGroup
          /\ last'.events = << >>]_vars

\* C32: setToolMode(toolName, Active) without options, on an added tool that
\* setToolDisabled left Disabled after saving its bindings B, activates the
\* tool with the bindings B of restoreToolOptions.
C32_RestoreOnReactivation ==
    [][(/\ last'.op = "setToolMode"
        /\ last'.args.mode = "Active"
        /\ last'.args.options = DefaultOptions
        /\ hasTool(ThisToolGroup, last'.args.toolName)
        /\ ThisToolGroup.restoreToolOptions[last'.args.toolName] # << >>
        /\ ThisToolGroup.toolOptions[last'.args.toolName] =
               <<[bindings |-> << >>, mode |-> "Disabled"]>>)
       => /\ toolGroups'[1].toolOptions[last'.args.toolName] # << >>
          /\ toolGroups'[1].toolOptions[last'.args.toolName][1].mode = "Active"
          /\ BindingsOf(toolGroups'[1], last'.args.toolName) =
                 ThisToolGroup.restoreToolOptions[last'.args.toolName][1].bindings]_vars

\* the bindings stored for the tools of every group, none equal to another
\* of its list and each naming a mouse button or a number of touch points
BindingsUniqueAndValid ==
    \A g \in 1..Len(toolGroups), toolName \in ToolNames :
       LET bindings == BindingsOf(toolGroups[g], toolName)
       IN  /\ \A i, j \in 1..Len(bindings) : bindings[i] = bindings[j] => i = j
           /\ \A i \in 1..Len(bindings) :
                 \/ bindings[i].mouseButton # "undefined"
                 \/ bindings[i].numTouchPoints # "undefined"

\* C33: in every reachable state no bindings list holds two bindings with
\* the same (mouseButton, numTouchPoints, modifierKey) and every binding
\* names a mouse button or touch points; setToolActive applied twice in a
\* row with the same arguments leaves the bindings of the first application.
C33_BindingsUnique ==
    /\ []BindingsUniqueAndValid
    /\ [][(/\ last.op = "setToolActive"
           /\ last'.op = "setToolActive"
           /\ last'.args = last.args
           /\ hasTool(ThisToolGroup, last.args.toolName))
          => BindingsOf(toolGroups'[1], last.args.toolName) =
                 BindingsOf(ThisToolGroup, last.args.toolName)]_vars

\* the primary binding, named twice in one call, is stored once after the
\* shift-primary binding the tool already had
C33_Witness ==
    /\ last.op = "setToolActive"
    /\ last.args.bindings = <<PrimaryBinding, PrimaryBinding>>
    /\ hasTool(ThisToolGroup, "Pan")
    /\ BindingsOf(ThisToolGroup, "Pan") = <<ShiftPrimaryBinding, PrimaryBinding>>

\* C34: for every tool with a toolOptions entry the mode of the entry is the
\* mode of the instance, and a tool whose mode is Passive, Enabled or
\* Disabled has no bindings.
C34_ModeAndBindingsAgree ==
    \A g \in 1..Len(toolGroups), toolName \in ToolNames :
       toolGroups[g].toolOptions[toolName] # << >>
       => /\ hasTool(toolGroups[g], toolName)
          /\ toolGroups[g].toolOptions[toolName][1].mode =
                 InstanceMode(toolGroups[g], toolName)
          /\ toolGroups[g].toolOptions[toolName][1].mode \in ToolModes
          /\ toolGroups[g].toolOptions[toolName][1].mode # "Active"
             => toolGroups[g].toolOptions[toolName][1].bindings = << >>

\* a passive call left Pan Active on its secondary binding, entry and instance alike
C34_Witness ==
    /\ last.op = "setToolPassive"
    /\ hasTool(ThisToolGroup, "Pan")
    /\ ThisToolGroup.toolOptions["Pan"] =
           <<[bindings |-> <<SecondaryBinding>>, mode |-> "Active"]>>
    /\ InstanceMode(ThisToolGroup, "Pan") = "Active"
    /\ last.events = <<ToolModeChanged("Pan", "Passive")>>


====
